---- MODULE Spec2Model ----
(***************************************************************************)
(* A model of golive: the structured template tree (internal/tmpl/tree.go) *)
(* and the per-connection session (live/liveview.go).                      *)
(*                                                                         *)
(* Go strings are modelled as sequences of one-character strings, so that  *)
(* concatenation, comparison and output order are those of the program.    *)
(* Trees live in a heap (a sequence of nodes, a *Tree is an index into     *)
(* it), because diff aliases and mutates the trees it is given.            *)
(***************************************************************************)
EXTENDS Integers, Sequences, FiniteSets, TLC

VARIABLES
    heap,       \* builder: the trees built so far, heap[1] is the root
    nops,       \* builder: number of builder calls made
    bpanic,     \* builder: a call panicked (index out of range)
    out,        \* builder: every static and dynamic string passed, in call order
    open,       \* builder: path of the nodes a template execution has open
    iters,      \* builder: per node, the calls of the first and the current range iteration
    templated,  \* builder: the calls so far are ones a template execution issues
    oldRoot,    \* diff: the tree rendered first (an index into heap)
    newRoot,    \* diff: the tree rendered second, from the same template
    dres,       \* diff: the outcome of the diff that was run, if any
    sock,       \* session: the fields of the socket (liveview.go:339-362)
    views,      \* session: the view the router made for the last join, sock.view is an index
    task,       \* session: where serve is, and what it is handling
    peers       \* session: the client, the reader and the goroutines blocked on the channels

bvars == <<nops, bpanic, out, open, iters, templated>>
dvars == <<oldRoot, newRoot, dres>>
svars == <<sock, views, task, peers>>
vars == <<heap, nops, bpanic, out, open, iters, templated, oldRoot, newRoot, dres,
          sock, views, task, peers>>

\* the builder and the diff are checked without a session
NoSession ==
    /\ sock = <<>>
    /\ views = <<>>
    /\ task = <<>>
    /\ peers = <<>>

(***************************************************************************)
(* Bounds                                                                  *)
(***************************************************************************)
MaxOps == 7
MaxNodes == 3

Texts == {<<"a">>}
DynVals == {<<"x">>}

(***************************************************************************)
(* Tree: type Tree struct, tree.go:15-23.  An element of Dynamics is a     *)
(* string, a *Tree or (in a diff tree) skipRender{}; in a range tree       *)
(* Dynamics is a sequence of rows of such elements.                        *)
(***************************************************************************)
StrDyn(s) == [kind |-> "string", s |-> s, id |-> 0]
TreeDyn(id) == [kind |-> "tree", s |-> <<>>, id |-> id]
skipRender == [kind |-> "skip", s |-> <<>>, id |-> 0]

NewTree ==
    [Statics |-> << <<>> >>, Dynamics |-> <<>>, ExcludeStatics |-> FALSE,
     Title |-> <<>>, Events |-> <<>>, isRange |-> FALSE, rangeStep |-> 0]

nDyn(t) ==
    IF ~t.isRange \/ Len(t.Dynamics) = 0
    THEN Len(t.Dynamics)
    ELSE Len(t.Dynamics[1])

Valid(t) == nDyn(t) + 1 = Len(t.Statics)

\* A variant of AppendStatic that never merges consecutive statics.
AppendStaticNoMerge(t, text) ==
    IF t.rangeStep > 0 THEN t
    ELSE [t EXCEPT !.Statics = Append(@, text)]

AppendStatic(t, text) ==
    IF t.rangeStep > 0 THEN t
    ELSE IF Len(t.Statics) > nDyn(t)
         THEN [t EXCEPT !.Statics[Len(t.Statics)] = @ \o text]
         ELSE [t EXCEPT !.Statics = Append(@, text)]

appendDynamicWithStatic(t, a) ==
    [t EXCEPT !.Dynamics = Append(@, a), !.Statics = Append(@, <<>>)]

\* t.Dynamics[t.rangeStep] is out of range after the append of one row
appendDynamicPanics(t) == t.isRange /\ t.rangeStep > Len(t.Dynamics)

\* an appendDynamic that appends the placeholder static in every iteration
appendDynamicEveryStep(t, d) ==
    IF ~t.isRange THEN appendDynamicWithStatic(t, d)
    ELSE LET dyns == IF t.rangeStep >= Len(t.Dynamics)
                     THEN Append(t.Dynamics, <<>>)
                     ELSE t.Dynamics
             row == t.rangeStep + 1
             t1 == [t EXCEPT !.Dynamics = [dyns EXCEPT ![row] = Append(@, d)]]
         IN [t1 EXCEPT !.Statics = Append(@, <<>>)]

appendDynamic(t, d) ==
    IF ~t.isRange THEN appendDynamicWithStatic(t, d)
    ELSE LET dyns == IF t.rangeStep >= Len(t.Dynamics)
                     THEN Append(t.Dynamics, <<>>)
                     ELSE t.Dynamics
             row == t.rangeStep + 1
             t1 == [t EXCEPT !.Dynamics = [dyns EXCEPT ![row] = Append(@, d)]]
         IN IF t.rangeStep = 0
            THEN [t1 EXCEPT !.Statics = Append(@, <<>>)]
            ELSE t1

IncRangeStep(t) == [t EXCEPT !.rangeStep = @ + 1]

\* The heap after t.AppendStatic(text), t.AppendDynamic(d), t.AppendSub(),
\* t.AppendRangeSub() and t.IncRangeStep(); a new subtree gets the next index.
HAppendStatic(h, t, text) == [h EXCEPT ![t] = AppendStatic(h[t], text)]
HAppendDynamic(h, t, d) == [h EXCEPT ![t] = appendDynamic(h[t], StrDyn(d))]
HAppendSub(h, t) ==
    Append([h EXCEPT ![t] = appendDynamic(h[t], TreeDyn(Len(h) + 1))], NewTree)
HAppendRangeSub(h, t) ==
    Append([h EXCEPT ![t] = appendDynamic(h[t], TreeDyn(Len(h) + 1))],
           [NewTree EXCEPT !.isRange = TRUE])
HIncRangeStep(h, t) == [h EXCEPT ![t] = IncRangeStep(h[t])]

(***************************************************************************)
(* RenderTo, tree.go:580-612: the plain text of a tree.                    *)
(***************************************************************************)
RECURSIVE RenderTo(_, _), RenderRow(_, _, _, _)

RenderRow(h, t, dyns, i) ==
    IF i > Len(h[t].Statics) THEN <<>>
    ELSE h[t].Statics[i]
         \o (IF i > Len(dyns) THEN <<>>
             ELSE IF dyns[i].kind = "string" THEN dyns[i].s
             ELSE RenderTo(h, dyns[i].id))
         \o RenderRow(h, t, dyns, i + 1)

RECURSIVE RenderRows(_, _, _, _)
RenderRows(h, t, rows, r) ==
    IF r > Len(rows) THEN <<>>
    ELSE RenderRow(h, t, rows[r], 1) \o RenderRows(h, t, rows, r + 1)

RenderTo(h, t) ==
    LET dynamics == IF ~h[t].isRange THEN << h[t].Dynamics >> ELSE h[t].Dynamics
    IN RenderRows(h, t, dynamics, 1)

(***************************************************************************)
(* JSON text is modelled as the sequence of its tokens: a punctuation mark *)
(* or a string literal (its unescaped content).  countWriter,              *)
(* tree.go:409-495, stops writing at the first error.                      *)
(***************************************************************************)
P(c) == [t |-> "p", v |-> <<c>>]
S(s) == [t |-> "s", v |-> s]

\* a byte that is not valid UTF-8
BadByte == "\\xff"

\* strconv.AppendInt for the indices the model reaches
IntStr(i) == << <<"0">>, <<"1">>, <<"2">>, <<"3">>, <<"4">>, <<"5">>, <<"6">>, <<"7">>, <<"8">>, <<"9">> >>[i + 1]

NewCountWriter == [toks |-> <<>>, err |-> FALSE, panic |-> FALSE]

writeBytes(cw, toks) ==
    IF cw.err \/ cw.panic THEN cw ELSE [cw EXCEPT !.toks = @ \o toks]

writeString(cw, toks) == writeBytes(cw, toks)

writeInt(cw, x) == writeBytes(cw, <<S(IntStr(x))>>)

\* json.AppendString fails on invalid UTF-8, and that is its only error
writeJSONString(cw, s) ==
    IF cw.err \/ cw.panic THEN cw
    ELSE IF \E i \in 1..Len(s) : s[i] = BadByte
         THEN [cw EXCEPT !.err = TRUE]
         ELSE writeBytes(cw, <<S(s)>>)

writeLeadingComma(cw, i) == IF i = 0 THEN cw ELSE writeBytes(cw, <<P(",")>>)

cwPanic(cw) == [cw EXCEPT !.panic = TRUE]

RECURSIVE writeTo(_, _, _), writeDynamic(_, _, _), writeDynamics(_, _, _, _, _),
          writeRangeRows(_, _, _, _), writeRangeRow(_, _, _, _)

writeDynamic(cw, h, d) ==
    IF cw.err \/ cw.panic THEN cw
    ELSE IF d.kind = "string" THEN writeJSONString(cw, d.s)
    ELSE IF d.kind = "tree" THEN writeTo(cw, h, d.id)
    ELSE cwPanic(cw)

\* the loop of tree.go:524-537 from index i (0-based)
writeDynamics(cw, h, t, i, hasPrevious) ==
    IF i >= Len(h[t].Dynamics) THEN cw
    ELSE LET d == h[t].Dynamics[i + 1]
         IN IF d.kind = "skip"
            THEN writeDynamics(cw, h, t, i + 1, hasPrevious)
            ELSE LET c1 == IF hasPrevious THEN writeString(cw, <<P(",")>>) ELSE cw
                     c2 == writeString(c1, <<>>)
                     c3 == writeInt(c2, i)
                     c4 == writeString(c3, <<P(":")>>)
                     c5 == writeDynamic(c4, h, d)
                 IN writeDynamics(c5, h, t, i + 1, TRUE)

\* the inner loop of tree.go:543-546 from index j (0-based)
writeRangeRow(cw, h, row, j) ==
    IF j >= Len(row) THEN cw
    ELSE writeRangeRow(writeDynamic(writeLeadingComma(cw, j), h, row[j + 1]), h, row, j + 1)

\* the loop of tree.go:540-548 from index i (0-based)
writeRangeRows(cw, h, t, i) ==
    IF i >= Len(h[t].Dynamics) THEN cw
    ELSE LET c1 == writeString(writeLeadingComma(cw, i), <<P("[")>>)
             c2 == writeRangeRow(c1, h, h[t].Dynamics[i + 1], 0)
         IN writeRangeRows(writeString(c2, <<P("]")>>), h, t, i + 1)

RECURSIVE writeStatics(_, _, _), writeEvents(_, _, _)
writeStatics(cw, statics, i) ==
    IF i >= Len(statics) THEN cw
    ELSE writeStatics(writeJSONString(writeLeadingComma(cw, i), statics[i + 1]), statics, i + 1)

writeEvents(cw, events, i) ==
    IF i >= Len(events) THEN cw
    ELSE writeEvents(writeBytes(writeLeadingComma(cw, i), events[i + 1]), events, i + 1)

\* tree.go:552-560: the statics, unless they are excluded
writeStaticsOf(cw, node) ==
    IF node.ExcludeStatics THEN cw
    ELSE writeString(
             writeStatics(writeString(cw, <<P(","), S(<<"s">>), P(":"), P("[")>>), node.Statics, 0),
             <<P("]")>>)

\* tree.go:562-565: the title, if there is one
writeTitleOf(cw, node) ==
    IF node.Title = <<>> THEN cw
    ELSE writeJSONString(writeString(cw, <<P(","), S(<<"t">>), P(":")>>), node.Title)

\* tree.go:567-574: the events, if there are any
writeEventsOf(cw, node) ==
    IF Len(node.Events) = 0 THEN cw
    ELSE writeString(
             writeEvents(writeString(cw, <<P(","), S(<<"e">>), P(":"), P("[")>>), node.Events, 0),
             <<P("]")>>)

\* t = 0 is the nil *Tree
writeTo(cw, h, t) ==
    IF cw.err \/ cw.panic THEN cw
    ELSE IF t = 0 THEN cw
    ELSE IF Len(h[t].Dynamics) = 0
         THEN IF Len(h[t].Statics) # 1 THEN cwPanic(cw)
              ELSE writeJSONString(cw, h[t].Statics[1])
    ELSE writeString(
             writeEventsOf(
                 writeTitleOf(
                     writeStaticsOf(
                         IF ~h[t].isRange
                         THEN writeDynamics(writeString(cw, <<P("{")>>), h, t, 0, FALSE)
                         ELSE writeString(
                                  writeRangeRows(
                                      writeString(writeString(cw, <<P("{")>>),
                                                  <<S(<<"d">>), P(":"), P("[")>>), h, t, 0),
                                  <<P("]")>>),
                         h[t]),
                     h[t]),
                 h[t]),
             <<P("}")>>)

\* Tree.JSON, tree.go:400-407: the bytes, or a panic when the writer failed
JSON(h, t) ==
    LET cw == writeTo(NewCountWriter, h, t)
    IN [toks |-> cw.toks, panic |-> cw.err \/ cw.panic]

(***************************************************************************)
(* encoding/json: a JSON value is a string, an array or an object (a       *)
(* function from its keys); Unmarshal fails on text that is not one value. *)
(***************************************************************************)
JStr(s) == [k |-> "str", v |-> s]
JArr(a) == [k |-> "arr", v |-> a]
JObj(m) == [k |-> "obj", v |-> m]
ParseFail == [ok |-> FALSE, v |-> JStr(<<>>), i |-> 0]

RECURSIVE ParseValue(_, _), ParseMembers(_, _, _), ParseElements(_, _, _)

ParseValue(toks, i) ==
    IF i > Len(toks) THEN ParseFail
    ELSE IF toks[i].t = "s" THEN [ok |-> TRUE, v |-> JStr(toks[i].v), i |-> i + 1]
    ELSE IF toks[i] = P("{")
         THEN IF i + 1 <= Len(toks) /\ toks[i + 1] = P("}")
              THEN [ok |-> TRUE, v |-> JObj(<<>>), i |-> i + 2]
              ELSE ParseMembers(toks, i + 1, <<>>)
    ELSE IF toks[i] = P("[")
         THEN IF i + 1 <= Len(toks) /\ toks[i + 1] = P("]")
              THEN [ok |-> TRUE, v |-> JArr(<<>>), i |-> i + 2]
              ELSE ParseElements(toks, i + 1, <<>>)
    ELSE ParseFail

ParseMembers(toks, i, acc) ==
    IF i + 2 > Len(toks) \/ toks[i].t # "s" \/ toks[i + 1] # P(":") THEN ParseFail
    ELSE LET r == ParseValue(toks, i + 2)
         IN IF ~r.ok \/ r.i > Len(toks) THEN ParseFail
            ELSE LET acc2 == (toks[i].v :> r.v) @@ acc
                 IN IF toks[r.i] = P("}") THEN [ok |-> TRUE, v |-> JObj(acc2), i |-> r.i + 1]
                    ELSE IF toks[r.i] = P(",") THEN ParseMembers(toks, r.i + 1, acc2)
                    ELSE ParseFail

ParseElements(toks, i, acc) ==
    LET r == ParseValue(toks, i)
    IN IF ~r.ok \/ r.i > Len(toks) THEN ParseFail
       ELSE LET acc2 == Append(acc, r.v)
            IN IF toks[r.i] = P("]") THEN [ok |-> TRUE, v |-> JArr(acc2), i |-> r.i + 1]
               ELSE IF toks[r.i] = P(",") THEN ParseElements(toks, r.i + 1, acc2)
               ELSE ParseFail

\* the value r that was parsed is the whole text of n tokens
WholeText(r, n) == IF r.ok /\ r.i = n + 1 THEN r ELSE ParseFail

\* json.Unmarshal: the whole text is exactly one value
Unmarshal(toks) == WholeText(ParseValue(toks, 1), Len(toks))

\* the value r that was parsed goes into a map[string]any
IntoMap(r) == IF r.ok /\ r.v.k = "obj" THEN r ELSE ParseFail

\* json.Unmarshal into a map[string]any: the value must be an object
UnmarshalMap(toks) == IntoMap(Unmarshal(toks))

(***************************************************************************)
(* The structural diff, tree.go:249-387.  diff returns the heap (it        *)
(* allocates the diff tree, and in the range branch it sets ExcludeStatics *)
(* of new itself), the diff tree d (0 is nil) and whether it panicked.     *)
(***************************************************************************)
excludeStatics(old, new) ==
    /\ Len(old) = Len(new)
    /\ \A i \in 1..Len(new) : old[i] = new[i]

\* reflect.TypeOf of an element of Dynamics: a row of a range tree is a []any
DynType(h, t, i) == IF h[t].isRange THEN "row" ELSE h[t].Dynamics[i].kind

RECURSIVE diff(_, _, _), diffDynamics(_, _, _, _, _), diffRange(_, _, _, _, _)

\* diffTree = new; diffTree.ExcludeStatics = excludeStatics(old.Statics, new.Statics)
takeNew(h, old, new) ==
    [h |-> [h EXCEPT ![new].ExcludeStatics = excludeStatics(h[old].Statics, h[new].Statics)],
     d |-> new, panic |-> FALSE]

\* The loops of tree.go:281-318 from row i, cell j (1-based): whether some
\* cell differs, in which case new is taken whole.
diffRange(h, old, new, i, j) ==
    IF i > Len(h[new].Dynamics) THEN [h |-> h, differs |-> FALSE, panic |-> FALSE]
    ELSE LET nd == h[new].Dynamics[i]
             od == h[old].Dynamics[i]
         IN IF j > Len(nd) THEN diffRange(h, old, new, i + 1, 1)
            ELSE IF j > Len(od) THEN [h |-> h, differs |-> FALSE, panic |-> TRUE]
            ELSE IF od[j].kind # nd[j].kind THEN [h |-> h, differs |-> TRUE, panic |-> FALSE]
            ELSE IF nd[j].kind = "string"
                 THEN IF nd[j].s # od[j].s
                      THEN [h |-> h, differs |-> TRUE, panic |-> FALSE]
                      ELSE diffRange(h, old, new, i, j + 1)
            ELSE IF nd[j].kind = "tree"
                 THEN LET sub == diff(h, od[j].id, nd[j].id)
                      IN IF sub.panic THEN [h |-> sub.h, differs |-> FALSE, panic |-> TRUE]
                         ELSE IF sub.d # 0
                              THEN [h |-> sub.h, differs |-> TRUE, panic |-> FALSE]
                              ELSE diffRange(sub.h, old, new, i, j + 1)
            ELSE [h |-> h, differs |-> FALSE, panic |-> TRUE]

\* The loop of tree.go:332-377 from index i (1-based); dt is the diff tree.
diffDynamics(h, old, new, dt, i) ==
    IF i > Len(h[new].Dynamics) THEN [h |-> h, allSkips |-> TRUE, panic |-> FALSE]
    ELSE LET nd == h[new].Dynamics[i]
             hasOld == i <= Len(h[old].Dynamics)
             take(hh, v) == [hh EXCEPT ![dt].Dynamics = Append(@, v)]
             rest(hh, skipped) ==
                 LET r == diffDynamics(hh, old, new, dt, i + 1)
                 IN [r EXCEPT !.allSkips = @ /\ skipped]
         IN IF ~hasOld THEN rest(take(h, nd), FALSE)
            ELSE IF DynType(h, old, i) # nd.kind THEN rest(take(h, nd), FALSE)
            ELSE IF nd.kind = "string"
                 THEN IF h[old].Dynamics[i].s # nd.s
                      THEN rest(take(h, nd), FALSE)
                      ELSE rest(take(h, skipRender), TRUE)
            ELSE IF nd.kind = "tree"
                 THEN LET sub == diff(h, h[old].Dynamics[i].id, nd.id)
                      IN IF sub.panic THEN [h |-> sub.h, allSkips |-> FALSE, panic |-> TRUE]
                         ELSE IF sub.d # 0
                              THEN rest(take(sub.h, TreeDyn(sub.d)), FALSE)
                              ELSE rest(take(sub.h, skipRender), TRUE)
            ELSE [h |-> h, allSkips |-> FALSE, panic |-> TRUE]

diff(h, old, new) ==
    LET h0 == Append(h, NewTree)
        dt == Len(h0)
    IN IF h[new].isRange
       THEN IF ~h[old].isRange THEN takeNew(h0, old, new)
            ELSE IF Len(h[old].Dynamics) # Len(h[new].Dynamics) THEN takeNew(h0, old, new)
            ELSE LET r == diffRange(h0, old, new, 1, 1)
                 IN IF r.panic THEN [h |-> r.h, d |-> 0, panic |-> TRUE]
                    ELSE IF r.differs THEN takeNew(r.h, old, new)
                    ELSE IF excludeStatics(h[old].Statics, h[new].Statics)
                         THEN [h |-> r.h, d |-> 0, panic |-> FALSE]
                         ELSE [h |-> [r.h EXCEPT ![new].ExcludeStatics = FALSE],
                               d |-> new, panic |-> FALSE]
       ELSE LET r == diffDynamics(h0, old, new, dt, 1)
                ex == excludeStatics(h[old].Statics, h[new].Statics)
            IN IF r.panic THEN [h |-> r.h, d |-> 0, panic |-> TRUE]
               ELSE IF ex /\ r.allSkips THEN [h |-> r.h, d |-> 0, panic |-> FALSE]
               ELSE [h |-> [r.h EXCEPT ![dt].ExcludeStatics = ex], d |-> dt, panic |-> FALSE]

(***************************************************************************)
(* The map-based diff, tree.go:135-216.  Go visits the keys of new in an   *)
(* unspecified order, and two of the break statements leave the loop over  *)
(* the keys, so DiffMap is the set of the outcomes of every visiting       *)
(* order.  An outcome is a map (a function from keys) or a panic (a failed *)
(* type assertion or an index out of range).                               *)
(***************************************************************************)
Put(m, k, v) == (k :> v) @@ m

DiffPanic == [panic |-> TRUE, m |-> <<>>]

RECURSIVE DiffMap(_, _), DiffMapFrom(_, _, _, _), DiffMapKey(_, _, _, _), DiffMapRows(_, _, _, _)

\* The loops of tree.go:175-194 from row i, cell j (1-based): the set of
\* [panic, changed] outcomes.
DiffMapRows(oldD, newD, i, j) ==
    IF i > Len(newD) THEN {[panic |-> FALSE, changed |-> FALSE]}
    ELSE LET nsd == newD[i]
             osd == oldD[i]
         IN IF nsd.k # "arr" THEN {[panic |-> TRUE, changed |-> FALSE]}
            ELSE IF j > Len(nsd.v) THEN DiffMapRows(oldD, newD, i + 1, 1)
            ELSE IF osd.k # "arr" \/ j > Len(osd.v) THEN {[panic |-> TRUE, changed |-> FALSE]}
            ELSE LET nsdd == nsd.v[j]
                     osdd == osd.v[j]
                     here == IF nsdd.k = "obj"
                             THEN IF osdd.k # "obj" THEN {[panic |-> TRUE, changed |-> FALSE]}
                                  ELSE {[panic |-> md.panic, changed |-> ~md.panic /\ DOMAIN md.m # {}] :
                                           md \in DiffMap(osdd.v, nsdd.v)}
                             ELSE IF nsdd.k = "str"
                                  THEN {[panic |-> FALSE, changed |-> nsdd # osdd]}
                                  ELSE {[panic |-> FALSE, changed |-> FALSE]}
                 IN UNION {IF x.panic THEN {x}
                           ELSE {[panic |-> r.panic, changed |-> x.changed \/ r.changed] :
                                    r \in DiffMapRows(oldD, newD, i, j + 1)} : x \in here}

\* One iteration of the loop over the keys of new, tree.go:137-214: the set
\* of [ctl, m], where ctl is "next" (the loop goes on), "break" or "panic".
DiffMapKey(old, new, k, diffm) ==
    LET nv == new[k]
    IN IF k \notin DOMAIN old THEN {[ctl |-> "next", m |-> Put(diffm, k, nv)]}
       ELSE IF k = <<"t">> \/ k = <<"e">> THEN {[ctl |-> "next", m |-> diffm]}
       ELSE LET ov == old[k]
                \* statics key
                m1 == IF k = <<"s">> /\ ov.k = "arr" /\ nv.k = "arr"
                         /\ (Len(ov.v) # Len(nv.v) \/ \E i \in 1..Len(nv.v) : nv.v[i] # ov.v[i])
                      THEN Put(diffm, k, nv)
                      ELSE diffm
                \* the numeric key part, tree.go:196-213
                numeric(m) ==
                    IF ov.k # nv.k THEN {[ctl |-> "break", m |-> Put(m, k, nv)]}
                    ELSE IF nv.k = "obj"
                         THEN {IF md.panic THEN [ctl |-> "panic", m |-> <<>>]
                               ELSE IF DOMAIN md.m # {} THEN [ctl |-> "next", m |-> Put(m, k, JObj(md.m))]
                               ELSE [ctl |-> "next", m |-> m] : md \in DiffMap(ov.v, nv.v)}
                    ELSE IF nv.k = "str"
                         THEN {[ctl |-> "next", m |-> IF nv # ov THEN Put(m, k, nv) ELSE m]}
                    ELSE {[ctl |-> "next", m |-> m]}
            IN IF k = <<"s">> /\ (ov.k # "arr" \/ nv.k # "arr")
               THEN {[ctl |-> "panic", m |-> <<>>]}
               ELSE IF k = <<"d">>
               THEN IF ov.k # "arr" \/ nv.k # "arr" THEN {[ctl |-> "panic", m |-> <<>>]}
                    ELSE IF Len(ov.v) # Len(nv.v)
                         THEN {[ctl |-> "break", m |-> Put(m1, k, nv)]}
                         ELSE UNION {IF r.panic THEN {[ctl |-> "panic", m |-> <<>>]}
                                     ELSE numeric(IF r.changed THEN Put(m1, k, nv) ELSE m1) :
                                        r \in DiffMapRows(ov.v, nv.v, 1, 1)}
               ELSE numeric(m1)

\* the rest of the loop, the keys in todo not yet visited
DiffMapFrom(old, new, todo, diffm) ==
    IF todo = {} THEN {[panic |-> FALSE, m |-> diffm]}
    ELSE UNION {UNION {IF r.ctl = "next" THEN DiffMapFrom(old, new, todo \ {k}, r.m)
                       ELSE IF r.ctl = "break" THEN {[panic |-> FALSE, m |-> r.m]}
                       ELSE {DiffPanic} :
                          r \in DiffMapKey(old, new, k, diffm)} : k \in todo}

DiffMap(old, new) == DiffMapFrom(old, new, DOMAIN new, <<>>)

\* json.Marshal: the members of an object in the byte order of their keys
KeyOrder == << <<"0">>, <<"1">>, <<"2">>, <<"3">>, <<"4">>, <<"5">>, <<"6">>, <<"7">>, <<"8">>, <<"9">>,
               <<"d">>, <<"e">>, <<"s">>, <<"t">> >>

RECURSIVE Marshal(_), MarshalMembers(_, _, _), MarshalElements(_, _)
MarshalElements(a, i) ==
    IF i > Len(a) THEN <<>>
    ELSE (IF i > 1 THEN <<P(",")>> ELSE <<>>) \o Marshal(a[i]) \o MarshalElements(a, i + 1)

MarshalMembers(m, keys, i) ==
    IF i > Len(keys) THEN <<>>
    ELSE (IF i > 1 THEN <<P(",")>> ELSE <<>>) \o <<S(keys[i]), P(":")>> \o Marshal(m[keys[i]])
         \o MarshalMembers(m, keys, i + 1)

Marshal(v) ==
    IF v.k = "str" THEN <<S(v.v)>>
    ELSE IF v.k = "arr" THEN <<P("[")>> \o MarshalElements(v.v, 1) \o <<P("]")>>
    ELSE LET keys == SelectSeq(KeyOrder, LAMBDA k : k \in DOMAIN v.v)
         IN <<P("{")>> \o MarshalMembers(v.v, keys, 1) \o <<P("}")>>

\* Tree.Map, tree.go:390-397, of the serialisation j: it panics when JSON
\* panicked or when the text does not unmarshal
MapOfParsed(r) == IF ~r.ok THEN [panic |-> TRUE, m |-> <<>>] ELSE [panic |-> FALSE, m |-> r.v.v]

MapOfJSON(j) == IF j.panic THEN [panic |-> TRUE, m |-> <<>>] ELSE MapOfParsed(UnmarshalMap(j.toks))

\* Tree.Map, tree.go:390-397
Map(h, t) == MapOfJSON(JSON(h, t))

EmptyObject == <<P("{"), P("}")>>

\* Diff, tree.go:220-245, once the maps of the two trees, the structural
\* diff r, its serialisation d and the map dMap read back from it are there:
\* the set of outcomes [panic, toks, h], h being the heap Diff leaves (diff
\* sets ExcludeStatics of a range it takes from new)
DiffMaps(h, oldMap, newMap, r, d, dMap) ==
    LET failed(hh) == [panic |-> TRUE, toks |-> <<>>, h |-> hh]
    IN IF oldMap.panic \/ newMap.panic THEN {failed(h)}
       ELSE UNION {
              IF diffMap.panic THEN {failed(h)}
              ELSE IF r.panic \/ d.panic THEN {failed(r.h)}
              ELSE IF r.d = 0 THEN {[panic |-> FALSE, toks |-> EmptyObject, h |-> r.h]}
              ELSE IF ~dMap.ok THEN {failed(r.h)}
              ELSE {IF ddMap.panic THEN failed(r.h)
                    ELSE [panic |-> FALSE, toks |-> Marshal(JObj(diffMap.m)), h |-> r.h] :
                       ddMap \in DiffMap(dMap.v.v, diffMap.m)} :
              diffMap \in DiffMap(oldMap.m, newMap.m)}

\* Diff, tree.go:220-245
Diff(h, old, new) ==
    UNION {UNION {UNION {DiffMaps(h, oldMap, newMap, r, d, dMap) :
                            dMap \in {UnmarshalMap(d.toks)}} :
                     d \in {JSON(r.h, r.d)}} :
              oldMap \in {Map(h, old)}, newMap \in {Map(h, new)}, r \in {diff(h, old, new)}}

(***************************************************************************)
(* The builder as a state machine: any call on the root or on any subtree  *)
(* returned earlier (FuzzTreeSerialization, tree_test.go:477-510).         *)
(*                                                                         *)
(* out, open, iters and templated record the calls themselves: a template  *)
(* execution calls only into the subtree it has open, ends every range     *)
(* iteration with IncRangeStep, and repeats in every iteration the static  *)
(* texts and the number of dynamics of the first one.                      *)
(***************************************************************************)
NoIter == [first |-> <<>>, cur |-> << <<>> >>, done |-> 0]

InitBuild ==
    /\ heap = << NewTree >>
    /\ nops = 0
    /\ bpanic = FALSE
    /\ out = <<>>
    /\ open = <<1>>
    /\ iters = << NoIter >>
    /\ templated = TRUE
    /\ oldRoot = 0
    /\ newRoot = 0
    /\ dres = [kind |-> "none"]
    /\ NoSession

Nodes == 1..Len(heap)

PosIn(path, t) == CHOOSE i \in 1..Len(path) : path[i] = t
InPath(path, t) == \E i \in 1..Len(path) : path[i] = t

\* the open path once a call on t has been made: deeper subtrees are closed
OpenAt(t) == IF InPath(open, t) THEN SubSeq(open, 1, PosIn(open, t)) ELSE open

\* a call on t is one a template execution makes: t is open and every
\* range subtree it closes has just completed an iteration
CallOK(t) ==
    /\ InPath(open, t)
    /\ \A i \in (PosIn(open, t) + 1)..Len(open) :
          heap[open[i]].isRange => iters[open[i]].cur = << <<>> >>

CanCall == ~bpanic /\ nops < MaxOps

\* the record of the calls, kept while they are those of a template execution
Track(ok, o, p, it) ==
    /\ templated' = ok
    /\ out' = IF ok THEN o ELSE <<>>
    /\ open' = IF ok THEN p ELSE <<>>
    /\ iters' = IF ok THEN it ELSE <<>>

BuildAppendStatic(t, text) ==
    /\ CanCall
    /\ UNCHANGED <<dvars, svars>>
    /\ heap' = HAppendStatic(heap, t, text)
    /\ nops' = nops + 1
    /\ Track(templated /\ CallOK(t), out \o text, OpenAt(t),
             [iters EXCEPT ![t].cur[Len(iters[t].cur)] = @ \o text])
    /\ UNCHANGED bpanic

BuildAppendDynamic(t, d) ==
    /\ CanCall
    /\ UNCHANGED <<dvars, svars>>
    /\ IF appendDynamicPanics(heap[t])
       THEN /\ bpanic' = TRUE
            /\ UNCHANGED <<heap, out, open, iters, templated>>
       ELSE /\ heap' = HAppendDynamic(heap, t, d)
            /\ Track(templated /\ CallOK(t), out \o d, OpenAt(t),
                     [iters EXCEPT ![t].cur = Append(@, <<>>)])
            /\ UNCHANGED bpanic
    /\ nops' = nops + 1

BuildAppendSub(t) ==
    /\ CanCall
    /\ UNCHANGED <<dvars, svars>>
    /\ Len(heap) < MaxNodes
    /\ IF appendDynamicPanics(heap[t])
       THEN /\ bpanic' = TRUE
            /\ UNCHANGED <<heap, out, open, iters, templated>>
       ELSE /\ heap' = HAppendSub(heap, t)
            /\ Track(templated /\ CallOK(t), out, Append(OpenAt(t), Len(heap) + 1),
                     Append([iters EXCEPT ![t].cur = Append(@, <<>>)], NoIter))
            /\ UNCHANGED bpanic
    /\ nops' = nops + 1

BuildAppendRangeSub(t) ==
    /\ CanCall
    /\ UNCHANGED <<dvars, svars>>
    /\ Len(heap) < MaxNodes
    /\ IF appendDynamicPanics(heap[t])
       THEN /\ bpanic' = TRUE
            /\ UNCHANGED <<heap, out, open, iters, templated>>
       ELSE /\ heap' = HAppendRangeSub(heap, t)
            /\ Track(templated /\ CallOK(t), out, Append(OpenAt(t), Len(heap) + 1),
                     Append([iters EXCEPT ![t].cur = Append(@, <<>>)], NoIter))
            /\ UNCHANGED bpanic
    /\ nops' = nops + 1

BuildIncRangeStep(t) ==
    /\ CanCall
    /\ UNCHANGED <<dvars, svars>>
    /\ heap' = HIncRangeStep(heap, t)
    /\ nops' = nops + 1
    /\ Track(/\ templated
             /\ CallOK(t)
             /\ heap[t].isRange
             /\ iters[t].done > 0 => iters[t].cur = iters[t].first,
             out, OpenAt(t),
             [iters EXCEPT ![t] =
                 [first |-> IF @.done = 0 THEN @.cur ELSE @.first,
                  cur |-> << <<>> >>,
                  done |-> @.done + 1]])
    /\ UNCHANGED bpanic

NextBuild ==
    \/ \E t \in Nodes, text \in Texts : BuildAppendStatic(t, text)
    \/ \E t \in Nodes, d \in DynVals : BuildAppendDynamic(t, d)
    \/ \E t \in Nodes : BuildAppendSub(t)
    \/ \E t \in Nodes : BuildAppendRangeSub(t)
    \/ \E t \in Nodes : BuildIncRangeStep(t)

SpecBuild == InitBuild /\ [][NextBuild]_vars

\* every range subtree has completed the iteration it began
Complete == \A t \in Nodes : heap[t].isRange => iters[t].cur = << <<>> >>

(***************************************************************************)
(* C6: after every AppendStatic, AppendDynamic and AppendSub call on the   *)
(* root or any subtree, Valid() holds for every tree built by NewTree():   *)
(* the number of dynamics plus one equals the number of statics.           *)
(***************************************************************************)
C6_ValidAfterEveryCall ==
    \A t \in Nodes : ~heap[t].isRange => Valid(heap[t])

C6_Witness ==
    /\ Len(heap) = 3
    /\ Len(heap[1].Dynamics) = 2
    /\ Len(heap[1].Statics[3]) > 0
    /\ \A t \in Nodes : ~heap[t].isRange

(***************************************************************************)
(* C7: for a tree built by the calls of a template execution, RenderTo     *)
(* writes the concatenation, in call order, of every static text and every *)
(* dynamic string passed to the builder.                                   *)
(***************************************************************************)
C7_RenderEqualsCalls ==
    (templated /\ Complete /\ ~bpanic) => RenderTo(heap, 1) = out

(***************************************************************************)
(* Diffing two renders of one template.  A render is the sequence of       *)
(* builder calls the template execution issues (tree_test.go:393-410 shows *)
(* the calls of a range); each template below lists its renders for        *)
(* several values of the data.  A call names its tree by creation order,   *)
(* 1 being the root of the render.                                         *)
(***************************************************************************)
cS(t, text) == [op |-> "S", t |-> t, s |-> text]
cD(t, d) == [op |-> "D", t |-> t, s |-> d]
cSub(t) == [op |-> "Sub", t |-> t, s |-> <<>>]
cRSub(t) == [op |-> "RSub", t |-> t, s |-> <<>>]
cInc(t) == [op |-> "Inc", t |-> t, s |-> <<>>]

RECURSIVE RunCalls(_, _, _, _)
RunCalls(h, base, calls, i) ==
    IF i > Len(calls) THEN h
    ELSE LET c == calls[i]
             t == base + c.t
             h1 == CASE c.op = "S" -> HAppendStatic(h, t, c.s)
                     [] c.op = "D" -> HAppendDynamic(h, t, c.s)
                     [] c.op = "Sub" -> HAppendSub(h, t)
                     [] c.op = "RSub" -> HAppendRangeSub(h, t)
                     [] c.op = "Inc" -> HIncRangeStep(h, t)
         IN RunCalls(h1, base, calls, i + 1)

\* the heap with one more tree, rendered by the calls
Render(h, calls) == RunCalls(Append(h, NewTree), Len(h), calls, 1)

Templates == <<
    \* <h1>{{.X}}</h1>
    << <<cS(1, <<"h">>), cD(1, <<"x">>), cS(1, <<"/">>)>>,
       <<cS(1, <<"h">>), cD(1, <<"y">>), cS(1, <<"/">>)>> >>,
    \* {{.X}}{{.Y}}
    << <<cD(1, <<"x">>), cD(1, <<"x">>)>>,
       <<cD(1, <<"x">>), cD(1, <<"y">>)>>,
       <<cD(1, <<"y">>), cD(1, <<"x">>)>>,
       <<cD(1, <<"y">>), cD(1, <<"y">>)>> >>,
    \* {{if .X}}{{.X}}{{end}}
    << <<cSub(1)>>,
       <<cSub(1), cD(2, <<"x">>)>>,
       <<cSub(1), cD(2, <<"y">>)>> >>,
    \* {{if .C}}a{{.X}}{{else}}b{{.X}}{{end}}
    << <<cSub(1), cS(2, <<"a">>), cD(2, <<"x">>)>>,
       <<cSub(1), cS(2, <<"a">>), cD(2, <<"y">>)>>,
       <<cSub(1), cS(2, <<"b">>), cD(2, <<"x">>)>>,
       <<cSub(1), cS(2, <<"b">>), cD(2, <<"y">>)>> >>,
    \* {{range .R}}a{{.}}{{end}}
    << <<cRSub(1)>>,
       <<cRSub(1), cS(2, <<"a">>), cD(2, <<"x">>), cInc(2)>>,
       <<cRSub(1), cS(2, <<"a">>), cD(2, <<"y">>), cInc(2)>>,
       <<cRSub(1), cS(2, <<"a">>), cD(2, <<"x">>), cInc(2),
                   cS(2, <<"a">>), cD(2, <<"y">>), cInc(2)>> >>,
    \* {{range .R}}{{range .}}{{.}}{{end}}{{end}}
    << <<cRSub(1)>>,
       <<cRSub(1), cRSub(2), cD(3, <<"x">>), cInc(3), cInc(2)>>,
       <<cRSub(1), cRSub(2), cD(3, <<"y">>), cInc(3), cInc(2)>>,
       <<cRSub(1), cRSub(2), cD(3, <<"x">>), cInc(3), cD(3, <<"y">>), cInc(3), cInc(2)>> >>,
    \* {{.X}}{{range .R}}{{.}}{{end}}
    << <<cD(1, <<"x">>), cRSub(1), cD(2, <<"x">>), cInc(2)>>,
       <<cD(1, <<"y">>), cRSub(1), cD(2, <<"x">>), cInc(2)>>,
       <<cD(1, <<"x">>), cRSub(1), cD(2, <<"y">>), cInc(2)>> >>
>>

InitDiff ==
    /\ \E tp \in 1..Len(Templates) :
         \E a \in 1..Len(Templates[tp]), b \in 1..Len(Templates[tp]) :
            LET h1 == Render(<<>>, Templates[tp][a])
                h2 == Render(h1, Templates[tp][b])
            IN /\ heap = h2
               /\ oldRoot = 1
               /\ newRoot = Len(h1) + 1
    /\ dres = [kind |-> "none"]
    /\ nops = 0
    /\ bpanic = FALSE
    /\ out = <<>>
    /\ open = <<>>
    /\ iters = <<>>
    /\ templated = TRUE
    /\ NoSession

\* diff(old, new) and the serialisation of its result; the renders are
\* serialised first, as they were sent
DoDiff ==
    /\ dres.kind = "none"
    /\ LET r == diff(heap, oldRoot, newRoot)
           dj == JSON(r.h, r.d)
       IN /\ heap' = r.h
          /\ dres' = [kind |-> "diff",
                      oldJSON |-> JSON(heap, oldRoot).toks,
                      newJSON |-> JSON(heap, newRoot).toks,
                      d |-> r.d,
                      panic |-> r.panic \/ dj.panic,
                      diffJSON |-> IF r.d = 0 THEN EmptyObject ELSE dj.toks]
    /\ UNCHANGED <<bvars, oldRoot, newRoot, svars>>

\* Diff(old, new), in any of the orders in which it may visit the keys
DoDiffExported ==
    /\ dres.kind = "none"
    /\ \E o \in Diff(heap, oldRoot, newRoot) :
          /\ heap' = o.h
          /\ dres' = [kind |-> "Diff",
                      oldJSON |-> JSON(heap, oldRoot).toks,
                      newJSON |-> JSON(heap, newRoot).toks,
                      d |-> 0,
                      panic |-> o.panic,
                      diffJSON |-> o.toks]
    /\ UNCHANGED <<bvars, oldRoot, newRoot, svars>>

NextDiff == DoDiff \/ DoDiffExported

SpecDiff == InitDiff /\ [][NextDiff]_vars

(***************************************************************************)
(* The client's patcher: a numeric key of the diff replaces the old value, *)
(* or is merged into it when both are objects; "d", "s", "t" and "e" are   *)
(* replaced when the diff carries them; what the diff omits is kept.       *)
(***************************************************************************)
NumericKeys == {IntStr(i) : i \in 0..9}

RECURSIVE Overlay(_, _)
Overlay(old, d) ==
    IF d.k # "obj" \/ old.k # "obj" THEN d
    ELSE JObj([key \in (DOMAIN old.v) \cup (DOMAIN d.v) |->
                 IF key \notin DOMAIN d.v THEN old.v[key]
                 ELSE IF key \notin DOMAIN old.v THEN d.v[key]
                 ELSE IF key \in NumericKeys THEN Overlay(old.v[key], d.v[key])
                 ELSE d.v[key]])

(***************************************************************************)
(* C1: overlaying diff(old, new) onto old yields new, for two renders of   *)
(* the same template.                                                      *)
(***************************************************************************)
C1_OverlayYieldsNew ==
    dres.kind = "diff" =>
        /\ ~dres.panic
        /\ Unmarshal(dres.diffJSON).ok
        /\ Overlay(Unmarshal(dres.oldJSON).v, Unmarshal(dres.diffJSON).v)
             = Unmarshal(dres.newJSON).v

(***************************************************************************)
(* C8: Diff(old, new) returns well-formed JSON for any two valid trees,    *)
(* and exactly {} when the two trees serialise alike.                      *)
(***************************************************************************)
C8_ExportedWellFormed ==
    dres.kind = "Diff" =>
        /\ ~dres.panic
        /\ Unmarshal(dres.diffJSON).ok
        /\ (dres.oldJSON = dres.newJSON => dres.diffJSON = EmptyObject)

(***************************************************************************)
(* The session: one socket, its reader goroutine and its serve loop        *)
(* (live/liveview.go).  Topics, refs and URLs are plain strings; a *string *)
(* of a reply is <<>> (nil) or a one-element sequence.                     *)
(***************************************************************************)
MaxFrames == 3      \* frames the client sends on the connection
MaxCalls == 2       \* calls of the session API the code of the view makes
MaxClock == 30      \* seconds of wall clock a session with a clock runs

LvTopic == "lv:1"
LvuTopic == "lvu:0"    \* the topic of the entry EntryRef
RouteOK == "/a"         \* a URL the router has a view for
RouteNone == "/x"       \* a URL it has none for
RedirectTo == "/r"
Titles == {<<"T">>}
UploadName == "u"
ClearFlash == "lv:clear-flash"
UploadRef == "phx-1"    \* the ref AllowUpload gives the config
EntryRef == "0"

\* UploadConstraints, uploads.go:159-172: the zero value, and the options of
\* a view that takes one file of at most 100 bytes, a PNG or a .txt
NoConstraints == [Accept |-> <<>>, MaxEntries |-> 0, MaxFileSize |-> 0, ChunkSize |-> 0]
OneSmallFile == [Accept |-> <<"image/png", ".txt">>, MaxEntries |-> 1, MaxFileSize |-> 100, ChunkSize |-> 0]

Ref(n) == IntStr(n)[1]
Ptr(x) == <<x>>
NilPtr == <<>>

\* phx.Msg, phx.go:8-14
Msg(joinRef, msgRef, topic, event, payload) ==
    [JoinRef |-> joinRef, MsgRef |-> msgRef, Topic |-> topic, Event |-> event, Payload |-> payload]

\* phx.Response with every field omitted
NoResponse == [Rendered |-> <<>>, Diff |-> <<>>, Config |-> <<>>, Entries |-> <<>>, Redirect |-> <<>>]

Reply(joinRef, msgRef, topic, response) ==
    [kind |-> "reply", JoinRef |-> joinRef, MsgRef |-> msgRef, Topic |-> topic,
     Event |-> "phx_reply", Status |-> "ok", Response |-> response]

NewDiff(joinRef, topic, diffJSON) ==
    [kind |-> "diff", JoinRef |-> joinRef, MsgRef |-> NilPtr, Topic |-> topic,
     Event |-> "diff", Payload |-> diffJSON]

NewEmptyReply(msg) == Reply(Ptr(msg.JoinRef), Ptr(msg.MsgRef), msg.Topic, NoResponse)

NewEmptyUploadReply(up) == Reply(Ptr(up.JoinRef), Ptr(up.MsgRef), up.Topic, NoResponse)

NewUploadReplyDiff(msg, diffJSON, config, entries) ==
    Reply(Ptr(msg.JoinRef), Ptr(msg.MsgRef), msg.Topic,
          [NoResponse EXCEPT !.Diff = diffJSON, !.Config = config, !.Entries = entries])

NewReplyDiff(msg, diffJSON) ==
    Reply(Ptr(msg.JoinRef), Ptr(msg.MsgRef), msg.Topic, [NoResponse EXCEPT !.Diff = diffJSON])

NewRendered(msg, rendered) ==
    Reply(Ptr(msg.JoinRef), Ptr(msg.MsgRef), msg.Topic, [NoResponse EXCEPT !.Rendered = rendered])

\* a heartbeat reply that carries an empty join ref, not null
NewHeartbeatEmptyJoinRef(msgRef) == Reply(Ptr(""), Ptr(msgRef), "phoenix", NoResponse)

NewHeartbeat(msgRef) == Reply(NilPtr, Ptr(msgRef), "phoenix", NoResponse)

\* json.Marshal(Redirect{To: to}), the field being omitempty
RedirectJSON(to) ==
    IF to = "" THEN EmptyObject
    ELSE <<P("{"), S(<<"t", "o">>), P(":"), S(<<to>>), P("}")>>

NewRedirect(msg, to) ==
    Reply(Ptr(msg.JoinRef), Ptr(msg.MsgRef), msg.Topic, [NoResponse EXCEPT !.Redirect = RedirectJSON(to)])

NewNav(topic, event, p) ==
    [kind |-> "nav", JoinRef |-> NilPtr, MsgRef |-> NilPtr, Topic |-> topic, Event |-> event, Payload |-> p]

\* phx.NewError(joinRef, msgRef, topic): the phx_error frame of the three values
NewError(joinRef, msgRef, topic) ==
    [kind |-> "error", JoinRef |-> Ptr(joinRef), MsgRef |-> Ptr(msgRef), Topic |-> topic,
     Event |-> "phx_error"]

\* the nil []byte that serve appends and writes after phx_leave
NilFrame == [kind |-> "nil"]

\* Event.MarshalJSON, liveview.go:791-806, of an event without data
EventJSON(e) == <<P("["), S(<<e>>), P(","), P("{"), P("}"), P("]")>>

(***************************************************************************)
(* The view of the model counts, as the Counter of examples/: Render gives *)
(* the template <h1>{{.Count}}</h1> and the view as its dot.               *)
(***************************************************************************)
NewView == [Count |-> 0, mounts |-> 0]

ExecuteTree(v) ==
    Render(<<>>, <<cS(1, <<"<", "h", "1", ">">>), cD(1, IntStr(v.Count)), cS(1, <<"<", "/", "h", "1", ">">>)>>)

\* a tree of one heap placed after a heap of k nodes, and back
ShiftDyn(d, k) == IF d.kind = "tree" THEN [d EXCEPT !.id = @ + k] ELSE d
ShiftNode(n, k) ==
    [n EXCEPT !.Dynamics =
        IF n.isRange
        THEN [r \in DOMAIN n.Dynamics |->
                 [j \in DOMAIN n.Dynamics[r] |-> ShiftDyn(n.Dynamics[r][j], k)]]
        ELSE [i \in DOMAIN n.Dynamics |-> ShiftDyn(n.Dynamics[i], k)]]
ShiftHeap(h, k) == [i \in DOMAIN h |-> ShiftNode(h[i], k)]

\* tmpl.DiffJSON(old, new): the diff of two trees as JSON
DiffJSON(h, old, new) == Diff(h, old, new)

\* treeDiff, liveview.go:364-374, of the trees old (<<>> is nil) and new, each
\* a heap of its own with its root first: the set of [panic, json, oldTree]
treeDiff(old, new) ==
    IF old = <<>>
    THEN {[panic |-> j.panic, json |-> j.toks, oldTree |-> new] : j \in {JSON(new, 1)}}
    ELSE LET n == Len(old)
         IN {[panic |-> o.panic, json |-> o.toks,
              oldTree |-> ShiftHeap(SubSeq(o.h, n + 1, n + Len(new)), 0 - n)] :
                o \in UNION {DiffJSON(h, 1, n + 1) : h \in {old \o ShiftHeap(new, n)}}}

\* renderToTree, liveview.go:756-782: [panic, tree, sock]; Render on the nil
\* view is a nil dereference
renderToTree(sk, vs) ==
    IF sk.view = 0 THEN [panic |-> TRUE, tree |-> <<>>, sock |-> sk]
    ELSE LET t0 == ExecuteTree(vs[sk.view])
             t1 == IF sk.title # <<>> THEN [t0 EXCEPT ![1].Title = sk.title] ELSE t0
             t2 == [t1 EXCEPT ![1].Events = [i \in DOMAIN sk.events |-> EventJSON(sk.events[i])]]
         IN [panic |-> FALSE, tree |-> t2,
             sock |-> [sk EXCEPT !.title = <<>>, !.events = <<>>]]

(***************************************************************************)
(* State of the session after ServeHTTP has made the socket and started    *)
(* read and serve (liveview.go:230-252).                                   *)
(***************************************************************************)
\* What serve has done in the step it is in: the channel the input came
\* from and the input, the methods of the view called so far, whether the
\* handler returned an error, whether the view was rendered and the tree it
\* gave, the baseline, the queued events and the title the step found, the
\* URL the view gave Redirect, the calls of OnViewError, and for every call
\* of ConsumeUploadedEntries the config it found, the calls of the function
\* the view gave it and whether it panicked.
NoStep ==
    [src |-> "", msg |-> <<>>, cbs |-> <<>>, err |-> FALSE,
     rendered |-> FALSE, tree |-> <<>>, base |-> <<>>, evq |-> <<>>, titleq |-> <<>>,
     redirect |-> "", onViewError |-> 0, consumed |-> <<>>, wrote |-> ""]

Idle == [pc |-> "select", cb |-> "", k |-> "", res |-> <<>>, st |-> NoStep]

NoJoin == [JoinRef |-> "", MsgRef |-> "", Topic |-> ""]

\* the URL of the request that is upgraded to the websocket
WsRoute == "/live/websocket"

\* the socket ServeHTTP makes for the request req, liveview.go:238-249
\* rate.NewLimiter(rate.Limit(1/15.0), 3), liveview.go:247: a bucket of Burst
\* tokens that gains one token every RefillSeconds
Burst == 3
RefillSeconds == 15

\* errTokenBucket holds its tokens as the seconds it took to gain them
NewSocket(req) ==
    [view |-> 0, id |-> "", joinRef |-> "", msgRef |-> "", url |-> "",
     title |-> <<>>, events |-> <<>>, redirect |-> "",
     uploadConfigs |-> <<>>, activeUploadRef |-> "", activeUploadTopic |-> "",
     oldTree |-> <<>>, req |-> req, errTokenBucket |-> Burst * RefillSeconds]

\* the wall clock of a session whose state carries none
NoClock == 0 - 1

\* the state when ServeHTTP has upgraded the request req
InitConn(req, clock) ==
    /\ sock = NewSocket(req)
    /\ views = <<>>
    /\ task = Idle
    /\ peers = [sent |-> 0, cjoin |-> "", firstJoin |-> NoJoin, rd |-> [st |-> "read"],
                conn |-> "open", bg |-> "off", calls |-> 0, navs |-> <<>>, mounts |-> 0,
                uuids |-> 0, clock |-> clock, waits |-> <<>>, redirected |-> FALSE]
    /\ heap = <<>>
    /\ nops = 0
    /\ bpanic = FALSE
    /\ out = <<>>
    /\ open = <<>>
    /\ iters = <<>>
    /\ templated = FALSE
    /\ oldRoot = 0
    /\ newRoot = 0
    /\ dres = [kind |-> "none"]

InitSession == InitConn(WsRoute, NoClock)

tvars == <<heap, nops, bpanic, out, open, iters, templated, oldRoot, newRoot, dres>>

(***************************************************************************)
(* The client and the reader goroutine (read, liveview.go:254-279).  The   *)
(* n-th frame carries n as its ref; a join carries it as its join ref too, *)
(* and other frames the join ref of the client's last join.                *)
(***************************************************************************)
TextFrames(n, cj) ==
    {Msg(Ref(n), Ref(n), LvTopic, "phx_join", [url |-> u]) : u \in {RouteOK, RouteNone}}
    \cup {Msg(cj, Ref(n), LvTopic, "event", [type |-> "click", event |-> "inc"]),
          Msg(cj, Ref(n), LvTopic, "live_patch", [url |-> RouteOK]),
          Msg(cj, Ref(n), LvTopic, "allow_upload", [ref |-> UploadRef, entries |-> <<EntryRef>>]),
          Msg(cj, Ref(n), LvTopic, "progress", [ref |-> UploadRef, entry_ref |-> EntryRef, progress |-> 100]),
          Msg(cj, Ref(n), LvTopic, "phx_leave", <<>>),
          Msg(cj, Ref(n), LvTopic, "bogus", <<>>),
          Msg("", Ref(n), "phoenix", "heartbeat", <<>>)}

\* a parsed binary frame, phx.UploadMsg
UploadFrame(n, cj) ==
    [JoinRef |-> cj, MsgRef |-> Ref(n), Topic |-> LvuTopic, Event |-> "chunk"]

\* the client closes: ReadMessage fails and the reader offers the error on
\* s.readerr and returns
ReadError ==
    /\ peers.rd.st = "read"
    /\ task.pc = "select"
    /\ peers' = [peers EXCEPT !.conn = "closed", !.rd = [st |-> "err"]]
    /\ UNCHANGED <<sock, views, task, tvars>>

(***************************************************************************)
(* The tail of an iteration of serve, liveview.go:313-334, once the        *)
(* handler has returned res and err.                                       *)
(***************************************************************************)
\* the handler and the error path are done: res is what serve will write
WriteAll(sk, vs, pr, res, st) ==
    /\ sock' = sk
    /\ views' = vs
    /\ peers' = pr
    /\ task' = [pc |-> "write", cb |-> "", k |-> "", res |-> res, st |-> st]

\* liveview.go:313-328: on an error OnViewError is called and, once
\* errTokenBucket.Wait has returned, the phx_error frame is appended.  The
\* bucket fills with the wall clock.  In a session whose state carries no
\* clock the wait ends, after however long it takes; in one that carries
\* it, serve stays in the wait (pc "wait") and peers.waits notes the time
\* and the frames received when it began
Finish(sk, vs, pr, res, err, st) ==
    IF ~err THEN WriteAll(sk, vs, pr, res, st)
    ELSE IF pr.clock = NoClock
    THEN WriteAll(sk, vs, pr,
                  Append(res, NewError(sk.joinRef, sk.msgRef, sk.id)),
                  [st EXCEPT !.err = TRUE, !.onViewError = @ + 1])
    ELSE /\ sock' = sk
         /\ views' = vs
         /\ peers' = [pr EXCEPT !.waits = Append(@, [asked |-> pr.clock, got |-> NoClock,
                                                     sent |-> pr.sent, sentGot |-> pr.sent])]
         /\ task' = [pc |-> "wait", cb |-> "", k |-> "", res |-> res,
                     st |-> [st EXCEPT !.err = TRUE, !.onViewError = @ + 1]]

\* a Wait that returns at once, with a token or without
WaitReturnsAtOnce ==
    /\ task.pc = "wait"
    /\ sock' = [sock EXCEPT !.errTokenBucket = IF @ >= RefillSeconds THEN @ - RefillSeconds ELSE @]
    /\ peers' = [peers EXCEPT !.waits[Len(peers.waits)].got = peers.clock,
                              !.waits[Len(peers.waits)].sentGot = peers.sent]
    /\ task' = [task EXCEPT !.pc = "write",
                            !.res = Append(@, NewError(sock.joinRef, sock.msgRef, sock.id))]
    /\ UNCHANGED <<views, tvars>>

\* s.errTokenBucket.Wait(ctx) returns, liveview.go:319: it has taken a
\* token; the phx_error frame is appended (liveview.go:320-325)
WaitReturns ==
    /\ task.pc = "wait"
    /\ sock.errTokenBucket >= RefillSeconds
    /\ sock' = [sock EXCEPT !.errTokenBucket = @ - RefillSeconds]
    /\ peers' = [peers EXCEPT !.waits[Len(peers.waits)].got = peers.clock,
                              !.waits[Len(peers.waits)].sentGot = peers.sent]
    /\ task' = [task EXCEPT !.pc = "write",
                            !.res = Append(@, NewError(sock.joinRef, sock.msgRef, sock.id))]
    /\ UNCHANGED <<views, tvars>>

\* five seconds pass, and the bucket gains a third of a token unless it is
\* full; a Wait that finds a token returns without sleeping, so no time
\* passes over it
Tick ==
    /\ peers.clock # NoClock
    /\ peers.clock < MaxClock
    /\ ~(task.pc = "wait" /\ sock.errTokenBucket >= RefillSeconds)
    /\ peers' = [peers EXCEPT !.clock = @ + 5]
    /\ sock' = [sock EXCEPT !.errTokenBucket =
                    IF @ + 5 > Burst * RefillSeconds THEN Burst * RefillSeconds ELSE @ + 5]
    /\ UNCHANGED <<views, task, tvars>>

\* a handler panics: the goroutine of serve unwinds
Panics(sk, vs, pr, st) ==
    /\ sock' = sk
    /\ views' = vs
    /\ peers' = [pr EXCEPT !.conn = "closed"]
    /\ task' = [Idle EXCEPT !.pc = "panic", !.st = st]

\* the handler calls a method of the view
Calls(sk, vs, pr, cb, k, st) ==
    /\ sock' = sk
    /\ views' = vs
    /\ peers' = pr
    /\ task' = [pc |-> "cb", cb |-> cb, k |-> k, res |-> <<>>, st |-> [st EXCEPT !.cbs = Append(@, cb)]]

\* the writes of liveview.go:329-334: serve goes back to the select, or
\* returns when a write fails (the client is gone)
ServeWrite(ok) ==
    /\ task.pc = "write"
    /\ task' = [Idle EXCEPT !.pc = IF ok THEN "select" ELSE "done"]
    /\ peers' = [peers EXCEPT !.conn = IF ok THEN @ ELSE "closed"]
    /\ UNCHANGED <<sock, views, tvars>>

(***************************************************************************)
(* dispatch, liveview.go:376-671.  A handler runs up to the method of the  *)
(* view it calls; the calls the view makes from there, and its return, are *)
(* steps of their own.                                                     *)
(***************************************************************************)
\* config.viewForRequest, liveview.go:55-71: c.Mux serves the request into a
\* joinHandler, which keeps the status code the handler of the route writes
\* (0 when it writes none), and the handler may set a view.  The router of
\* the model makes a view for RouteOK and answers 404 for a URL it does not
\* know; its other routes write a status, with a view (/a...) or without
\* (/x...)
viewForRequest(url) ==
    CASE url = RouteOK -> [made |-> TRUE, code |-> 0]
      [] url = "/a500" -> [made |-> TRUE, code |-> 500]
      [] url = "/a503" -> [made |-> TRUE, code |-> 503]
      [] url = "/a505" -> [made |-> TRUE, code |-> 505]
      [] url = "/a205" -> [made |-> TRUE, code |-> 205]
      [] url = "/x500" -> [made |-> FALSE, code |-> 500]
      [] url = "/x505" -> [made |-> FALSE, code |-> 505]
      [] OTHER -> [made |-> FALSE, code |-> 404]

\* the upload config whose Ref is ref, or none
ConfigByRef(sk, ref) == {n \in DOMAIN sk.uploadConfigs : sk.uploadConfigs[n].Ref = ref}

(***************************************************************************)
(* Uploads, uploads.go.  An entry the client selected arrives as its ref,  *)
(* size and MIME type; sizes are in bytes.                                 *)
(***************************************************************************)
\* mime.ExtensionsByType for the types the client of the model sends
ExtensionsByType(mimeType) ==
    CASE mimeType = "image/png" -> <<".png">>
      [] mimeType = "text/plain" -> <<".txt">>
      [] mimeType = "application/pdf" -> <<".pdf">>
      [] OTHER -> <<>>

\* validateType, uploads.go:77-93
validateType(uc, mimeType) ==
    \E i \in DOMAIN uc.Accept :
       \/ uc.Accept[i] = mimeType
       \/ \E j \in DOMAIN ExtensionsByType(mimeType) : uc.Accept[i] = ExtensionsByType(mimeType)[j]

\* a validateSize that refuses a file of exactly the maximum size
validateSizeStrict(uc, size) == size < uc.MaxFileSize

\* validateSize, uploads.go:96-98
validateSize(uc, size) == size <= uc.MaxFileSize

\* validateEntry, uploads.go:102-115: the entry with Valid and Errors set
validateEntry(uc, entry) ==
    IF entry.Cancelled THEN [entry EXCEPT !.Valid = FALSE]
    ELSE IF ~validateSize(uc, entry.Size)
         THEN [entry EXCEPT !.Valid = FALSE, !.Errors = Append(@, <<"file size exceeds max of", uc.MaxFileSize>>)]
    ELSE IF ~validateType(uc, entry.Type)
         THEN [entry EXCEPT !.Valid = FALSE, !.Errors = Append(@, <<"file type is not allowed", entry.Type>>)]
    ELSE [entry EXCEPT !.Valid = TRUE]

\* the UploadEntry AddEntries makes of the i-th entry e of the payload,
\* uploads.go:123-137; uuid.NewString() gives the next unused uuid
NewUploadEntry(uc, e, uuid) ==
    validateEntry(uc, [Cancelled |-> FALSE, Size |-> e.size, Type |-> e.type, Done |-> FALSE,
                       Progress |-> 0, Ref |-> e.ref, UUID |-> uuid, Valid |-> FALSE,
                       Errors |-> <<>>])

\* AddEntries, uploads.go:118-145; uuids is the number of uuids made so far
AddEntries(uc, entries, uuids) ==
    LET es == [i \in DOMAIN entries |-> NewUploadEntry(uc, entries[i], uuids + i)]
    IN [uc EXCEPT !.Errors = IF uc.MaxEntries < Len(es) THEN Append(@, <<"max entries exceeded", uc.MaxEntries>>)
                                ELSE @,
                  !.Entries = es]

\* the loop of ConsumeUploadedEntries, uploads.go:246-252: the number of
\* entries fn is called for, which ends at the first entry that is not done
RECURSIVE ConsumedBefore(_, _)
ConsumedBefore(es, i) ==
    IF i > Len(es) \/ ~es[i].Done THEN i - 1 ELSE ConsumedBefore(es, i + 1)

\* filepath.Join(tdir, entry.UUID), uploads.go:245-250 and liveview.go:724-729
StagedPath(activeUploadRef, uuid) == <<activeUploadRef, uuid>>

\* the reply of a handler that renders: phx.NewRendered for a join,
\* phx.NewReplyDiff for an event, a live_patch or a progress
ReplyOf(m, json) ==
    IF m.Event = "phx_join" THEN NewRendered(m, json) ELSE NewReplyDiff(m, json)

\* render, diff against the baseline and reply to m, as every handler that
\* renders ends
RenderDiffReply(sk, vs, pr, st, m) ==
    \E r \in {renderToTree(sk, vs)} :
       LET st1 == [st EXCEPT !.rendered = TRUE, !.tree = r.tree,
                             !.evq = sk.events, !.titleq = sk.title]
       IN IF r.panic THEN Panics(sk, vs, pr, st)
          ELSE \E d \in treeDiff(r.sock.oldTree, r.tree) :
                  IF d.panic THEN Panics([r.sock EXCEPT !.oldTree = r.tree], vs, pr, st1)
                  ELSE Finish([r.sock EXCEPT !.oldTree = d.oldTree], vs, pr, <<ReplyOf(m, d.json)>>, FALSE, st1)

\* case "phx_join", liveview.go:379-469
DispatchJoin(m, pr, st) ==
    IF m.Topic = LvTopic
    THEN LET urlStr == IF "url" \in DOMAIN m.Payload THEN m.Payload.url ELSE ""
             route == viewForRequest(urlStr)
             v == IF route.made THEN 1 ELSE 0
             vs == IF route.made THEN <<NewView>> ELSE <<>>
             sk1 == [sock EXCEPT !.view = v]
             sk2 == [sk1 EXCEPT !.id = m.Topic, !.joinRef = m.JoinRef, !.msgRef = m.MsgRef,
                                !.url = urlStr]
         IN IF urlStr = "" THEN Finish(sock, views, pr, <<>>, TRUE, st)
            ELSE IF route.code % 100 = 5 \/ v = 0 THEN Finish(sk1, vs, pr, <<>>, TRUE, st)
            ELSE Calls(sk2, [vs EXCEPT ![v].mounts = @ + 1],
                       [pr EXCEPT !.bg = IF @ = "off" THEN "idle" ELSE @, !.mounts = @ + 1],
                       "Mount", "join", st)
    ELSE IF m.Topic = LvuTopic
    THEN Finish([sock EXCEPT !.activeUploadTopic = m.Topic], views, pr, <<NewEmptyReply(m)>>, FALSE, st)
    ELSE Finish(sock, views, pr, <<>>, TRUE, st)

\* the uploads of a form event, liveview.go:520-530: the entries the payload
\* has for the config that _target names go to AddEntries
FormUploads(sk, pr, m) ==
    LET name == m.Payload.target
        uploads == m.Payload.uploads
    IN IF /\ DOMAIN uploads # {}
          /\ name \in DOMAIN sk.uploadConfigs
          /\ sk.uploadConfigs[name].Ref # ""
          /\ sk.uploadConfigs[name].Ref \in DOMAIN uploads
       THEN [sock |-> [sk EXCEPT !.uploadConfigs[name] =
                          AddEntries(@, uploads[sk.uploadConfigs[name].Ref], pr.uuids)],
             peers |-> [pr EXCEPT !.uuids = @ + Len(uploads[sk.uploadConfigs[name].Ref])]]
       ELSE [sock |-> sk, peers |-> pr]

\* case "event", liveview.go:476-555, up to the call of HandleEvent: the
\* comparison of liveview.go:499 is of msg.Event, which is "event" here
DispatchEvent(m, pr, st) ==
    IF m.Payload.type \in {"click", "keyup", "keydown", "blur", "focus", "hook"}
    THEN IF m.Event = ClearFlash THEN RenderDiffReply(sock, views, pr, st, m)
         ELSE IF sock.view = 0 THEN Finish(sock, views, pr, <<>>, TRUE, st)
         ELSE Calls(sock, views, pr, "HandleEvent", "event", st)
    ELSE IF m.Payload.type = "form"
    THEN \E u \in {FormUploads(sock, pr, m)} :
            IF u.sock.view = 0 THEN Finish(u.sock, views, u.peers, <<>>, TRUE, st)
            ELSE Calls(u.sock, views, u.peers, "HandleEvent", "event", st)
    ELSE Finish(sock, views, pr, <<>>, TRUE, st)

\* case "live_patch", liveview.go:556-579: the router is asked with the
\* request of the connection (s.req) and the current view, which stays in
\* place unless the handler of the route sets another
DispatchLivePatch(m, pr, st) ==
    LET route == viewForRequest(sock.req)
        sk1 == IF route.made THEN [sock EXCEPT !.view = 1] ELSE sock
        vs == IF route.made THEN <<NewView>> ELSE views
    IN IF route.code % 100 = 5 THEN Finish(sk1, vs, pr, <<>>, TRUE, st)
       ELSE IF sk1.view = 0 THEN RenderDiffReply(sk1, vs, pr, st, m)
       ELSE Calls(sk1, vs, pr, "HandleParams", "live_patch", st)

\* case "phx_leave", liveview.go:580-591
DispatchLeave(m, pr, st) ==
    IF sock.view # 0 THEN Calls(sock, views, pr, "Close", "phx_leave", st)
    ELSE Finish(sock, views, pr, <<NilFrame>>, FALSE, st)

\* NewUploadConstraints, uploads.go:175-191
NewUploadConstraints(uc) ==
    [ChunkSize |-> IF uc.ChunkSize > 0 THEN uc.ChunkSize ELSE 64 * 1024,
     MaxEntries |-> IF uc.MaxEntries > 0 THEN uc.MaxEntries ELSE 10,
     MaxFileSize |-> IF uc.MaxFileSize > 0 THEN uc.MaxFileSize ELSE 10 * 1024 * 1024]

\* case "allow_upload", liveview.go:592-636: the tree is rendered first
DispatchAllowUpload(m, pr, st) ==
    \E r \in {renderToTree(sock, views)} :
       LET st1 == [st EXCEPT !.rendered = TRUE, !.tree = r.tree,
                             !.evq = sock.events, !.titleq = sock.title]
           sk1 == [r.sock EXCEPT !.activeUploadRef = m.Payload.ref]
           ucs == ConfigByRef(sk1, m.Payload.ref)
       IN IF r.panic THEN Panics(sock, views, pr, st)
          ELSE IF ucs = {} THEN Finish(sk1, views, pr, <<>>, TRUE, st1)
          ELSE \E n \in ucs, d \in treeDiff(sk1.oldTree, r.tree) :
                  IF d.panic THEN Panics([sk1 EXCEPT !.oldTree = r.tree], views, pr, st1)
                  ELSE Finish([sk1 EXCEPT !.oldTree = d.oldTree], views, pr,
                              <<NewUploadReplyDiff(m, d.json,
                                                   <<NewUploadConstraints(sk1.uploadConfigs[n])>>,
                                                   <<m.Payload.ref>> \o m.Payload.entries)>>,
                              FALSE, st1)

\* case "progress", liveview.go:637-668
DispatchProgress(m, pr, st) ==
    LET ucs == ConfigByRef(sock, m.Payload.ref)
    IN IF ucs = {} THEN Finish(sock, views, pr, <<>>, TRUE, st)
       ELSE \E n \in ucs :
               LET es == sock.uploadConfigs[n].Entries
                   hit == {i \in DOMAIN es : es[i].Ref = m.Payload.entry_ref}
                   es1 == IF hit = {} THEN es
                          ELSE LET i == CHOOSE i \in hit : \A j \in hit : i <= j
                               IN [es EXCEPT ![i].Progress = m.Payload.progress,
                                             ![i].Done = (m.Payload.progress = 100)]
               IN RenderDiffReply([sock EXCEPT !.uploadConfigs[n].Entries = es1], views, pr, st,
                                  m)

dispatch(m, pr, st) ==
    CASE m.Event = "phx_join" -> DispatchJoin(m, pr, st)
      [] m.Event = "heartbeat" -> Finish(sock, views, pr, <<NewHeartbeat(m.MsgRef)>>, FALSE, st)
      [] m.Event = "event" -> DispatchEvent(m, pr, st)
      [] m.Event = "live_patch" -> DispatchLivePatch(m, pr, st)
      [] m.Event = "phx_leave" -> DispatchLeave(m, pr, st)
      [] m.Event = "allow_upload" -> DispatchAllowUpload(m, pr, st)
      [] m.Event = "progress" -> DispatchProgress(m, pr, st)
      [] OTHER -> Finish(sock, views, pr, <<>>, TRUE, st)

\* the initial join: the first phx_join the client sent
FirstJoin(m) ==
    IF m.Event = "phx_join" /\ peers.firstJoin = NoJoin
    THEN [JoinRef |-> m.JoinRef, MsgRef |-> m.MsgRef, Topic |-> m.Topic]
    ELSE peers.firstJoin

\* ReadMessage returns a text frame, read sends the parsed message on s.msg
\* (liveview.go:272-277) and serve receives it (case pm := <-s.msg,
\* liveview.go:294-298): s.msg is unbuffered, the two meet
ReceiveMsg(m, limit) ==
    /\ task.pc = "select"
    /\ peers.rd.st = "read"
    /\ peers.conn = "open"
    /\ peers.sent < limit
    /\ dispatch(m, [peers EXCEPT !.sent = @ + 1,
                                 !.cjoin = IF m.Event = "phx_join" THEN m.JoinRef ELSE @,
                                 !.firstJoin = FirstJoin(m)],
                [NoStep EXCEPT !.src = "msg", !.msg = m, !.base = sock.oldTree])
    /\ UNCHANGED tvars

\* a client that sends at most MaxFrames frames
ServeMsg(m) == ReceiveMsg(m, MaxFrames)

\* the tail of case "event", liveview.go:545-555, taken without looking at
\* the redirect the view queued
EventReplyDiffOnly(m, vs, st) ==
    RenderDiffReply(sock, vs, peers, st, m)

\* the tail of case "event", liveview.go:545-555, after HandleEvent
EventReply(m, vs, st) ==
    IF sock.redirect # ""
    THEN Finish(sock, vs, [peers EXCEPT !.redirected = TRUE],
                <<NewRedirect(m, sock.redirect)>>, FALSE, st)
    ELSE RenderDiffReply(sock, vs, peers, st, m)

\* the method of the view that dispatch or handleInfo called returns, with
\* an error or not; HandleEvent and HandleInfo add c to the count
CbReturn(e, c) ==
    /\ task.pc = "cb"
    /\ c # 0 => ~e /\ task.k \in {"event", "info"}
    /\ LET m == task.st.msg
           st == task.st
           vs == [views EXCEPT ![sock.view].Count = (@ + c) % 2]
       IN IF e THEN Finish(sock, views, peers, <<>>, TRUE, st)
          ELSE CASE task.k = "join" -> Calls(sock, views, peers, "HandleParams", "join2", st)
                 [] task.k = "join2" ->
                      RenderDiffReply(sock, views, peers, st, m)
                 [] task.k = "event" -> EventReply(m, vs, st)
                 [] task.k = "live_patch" ->
                      RenderDiffReply(sock, views, peers, st, m)
                 [] task.k = "phx_leave" -> Finish(sock, views, peers, <<NilFrame>>, FALSE, st)
                 [] task.k = "info" ->
                      \* handleInfo, liveview.go:684-689
                      \E r \in {renderToTree(sock, vs)} :
                         \E j \in {JSON(r.tree, 1)} :
                            IF r.panic \/ j.panic THEN Panics(sock, vs, peers, st)
                            ELSE Finish(r.sock, vs, peers, <<NewDiff(NilPtr, sock.id, j.toks)>>, FALSE,
                                        [st EXCEPT !.rendered = TRUE, !.tree = r.tree,
                                                   !.evq = sock.events, !.titleq = sock.title])
    /\ UNCHANGED tvars

\* The goroutine the view started calls SendInfo (liveview.go:822-829) and
\* serve receives the info (case info := <-s.info, liveview.go:289-293):
\* handleInfo, liveview.go:675-690, up to the call of HandleInfo
ServeInfo ==
    /\ task.pc = "select"
    /\ peers.bg = "idle"
    /\ peers.calls < MaxCalls
    /\ LET pr == [peers EXCEPT !.calls = @ + 1]
           st == [NoStep EXCEPT !.src = "info", !.base = sock.oldTree]
       IN IF sock.view = 0 THEN Finish(sock, views, pr, <<>>, TRUE, st)
          ELSE Calls(sock, views, pr, "HandleInfo", "info", st)
    /\ UNCHANGED tvars

\* strings.Split(up.Topic, ":")[1]
TopicRef(topic) == IF topic = LvuTopic THEN EntryRef ELSE ""

\* the first chunk of an entry is answered with an empty diff whatever the
\* progress of the entry
FirstUploadDiffAlways(sk, up, entry) ==
    <<NewDiff(Ptr(up.JoinRef), sk.id, EmptyObject)>>

\* liveview.go:715 and 736-742: the empty diff sent before the reply to the
\* first chunk of an entry
FirstUploadDiff(sk, up, entry) ==
    IF entry.Progress = 0 THEN <<NewDiff(Ptr(up.JoinRef), sk.id, EmptyObject)>> ELSE <<>>

\* ReadMessage returns a binary frame, read sends it on s.upload
\* (liveview.go:261-269) and serve receives it (liveview.go:299-300):
\* handleUpload, liveview.go:692-752; fsok is whether the directory and the
\* file of the entry could be made and opened, wrok whether file.Write
\* succeeded.  The error of Write is assigned to err (liveview.go:734) and
\* err is assigned again by lvuRes, err := ...JSON() (liveview.go:745)
\* before anything reads it
ReceiveUpload(fsok, wrok, limit) ==
    /\ task.pc = "select"
    /\ peers.rd.st = "read"
    /\ peers.conn = "open"
    /\ peers.sent < limit
    /\ LET up == UploadFrame(peers.sent + 1, peers.cjoin)
           pr == [peers EXCEPT !.sent = @ + 1]
           st == [NoStep EXCEPT !.src = "upload", !.msg = up, !.base = sock.oldTree]
           ucs == ConfigByRef(sock, sock.activeUploadRef)
       IN IF ucs = {} THEN Finish(sock, views, pr, <<>>, TRUE, st)
          ELSE \E n \in ucs :
                  LET es == sock.uploadConfigs[n].Entries
                      hit == {i \in DOMAIN es : es[i].Ref = TopicRef(up.Topic)}
                  IN IF hit = {} THEN Finish(sock, views, pr, <<>>, TRUE, st)
                     ELSE LET i == CHOOSE i \in hit : \A j \in hit : i <= j
                              first == FirstUploadDiff(sock, up, es[i])
                          IN IF ~fsok THEN Finish(sock, views, pr, <<>>, TRUE, st)
                             ELSE Finish(sock, views, pr, first \o <<NewEmptyUploadReply(up)>>,
                                         FALSE, [st EXCEPT !.wrote = IF wrok THEN "ok" ELSE "failed"])
    /\ UNCHANGED tvars

ServeUpload(fsok) == \E wrok \in BOOLEAN : ReceiveUpload(fsok, wrok, MaxFrames)

\* case nm := <-s.nav, liveview.go:301-305: any of the goroutines blocked on
\* s.nav gets through
ServeNav ==
    /\ task.pc = "select"
    /\ \E i \in DOMAIN peers.navs :
          Finish(sock, views,
                 [peers EXCEPT !.navs = SubSeq(@, 1, i - 1) \o SubSeq(@, i + 1, Len(@))],
                 <<peers.navs[i]>>, FALSE,
                 [NoStep EXCEPT !.src = "nav", !.msg = peers.navs[i], !.base = sock.oldTree])
    /\ UNCHANGED tvars

\* the error of the reader taken as the error of a handler
ServeReadErrAsViewError ==
    /\ task.pc = "select"
    /\ peers.rd.st = "err"
    /\ Finish(sock, views, [peers EXCEPT !.rd = [st |-> "exit"]], <<>>, TRUE,
              [NoStep EXCEPT !.src = "readerr"])
    /\ UNCHANGED tvars

\* case err := <-s.readerr, liveview.go:306-311
ServeReadErr ==
    /\ task.pc = "select"
    /\ peers.rd.st = "err"
    /\ task' = [Idle EXCEPT !.pc = "done"]
    /\ peers' = [peers EXCEPT !.rd = [st |-> "exit"]]
    /\ UNCHANGED <<sock, views, tvars>>

(***************************************************************************)
(* What a method of the view may do with the context it is given: the      *)
(* session API of liveview.go:822-899 and uploads.go:200-212.              *)
(***************************************************************************)
InCallback == task.pc = "cb" /\ peers.calls < MaxCalls

Called == [peers EXCEPT !.calls = @ + 1]

\* PushEvent, liveview.go:891-899; the view names its events in the order
\* of its calls
PushEvent(e) ==
    /\ InCallback
    /\ sock' = [sock EXCEPT !.events = Append(@, e)]
    /\ peers' = Called
    /\ UNCHANGED <<views, task, tvars>>

\* PageTitle, liveview.go:832-838
PageTitle(newTitle) ==
    /\ InCallback
    /\ sock' = [sock EXCEPT !.title = newTitle]
    /\ peers' = Called
    /\ UNCHANGED <<views, task, tvars>>

\* Redirect, liveview.go:881-888
Redirect(url) ==
    /\ InCallback
    /\ sock' = [sock EXCEPT !.redirect = url]
    /\ peers' = Called
    /\ task' = [task EXCEPT !.st.redirect = url]
    /\ UNCHANGED <<views, tvars>>

\* AllowUpload, uploads.go:200-212
AllowUpload(name, options) ==
    /\ InCallback
    /\ sock' = [sock EXCEPT !.uploadConfigs =
                   (name :> [Ref |-> UploadRef, Name |-> name, Entries |-> <<>>, Errors |-> <<>>,
                             Accept |-> options.Accept, ChunkSize |-> options.ChunkSize,
                             MaxEntries |-> options.MaxEntries,
                             MaxFileSize |-> options.MaxFileSize]) @@ @]
    /\ peers' = Called
    /\ UNCHANGED <<views, task, tvars>>

\* ConsumeUploadedEntries, uploads.go:231-256, called by a method of the
\* view: fn is called for the entries before the first that is not done, and
\* the call panics at that one
ConsumeUploadedEntries(configName) ==
    /\ InCallback
    /\ IF configName \notin DOMAIN sock.uploadConfigs
       THEN /\ peers' = Called
            /\ UNCHANGED <<sock, views, task>>
       ELSE LET es == sock.uploadConfigs[configName].Entries
                k == ConsumedBefore(es, 1)
                got == [i \in 1..k |-> [Path |-> StagedPath(sock.activeUploadRef, es[i].UUID),
                                        entry |-> es[i]]]
                st == [task.st EXCEPT !.consumed =
                          Append(@, [config |-> sock.uploadConfigs[configName], fn |-> got,
                                     panic |-> k < Len(es)])]
            IN IF k < Len(es) THEN Panics(sock, views, Called, st)
               ELSE /\ sock' = [sock EXCEPT !.uploadConfigs[configName].Entries = <<>>]
                    /\ peers' = Called
                    /\ task' = [task EXCEPT !.st = st]
                    /\ UNCHANGED views
    /\ UNCHANGED tvars

\* the frame PushNav leaves to a goroutine to send, liveview.go:872-876
NavMsg(sk, n) == NewNav(sk.id, "live_patch", [Kind |-> "push", To |-> Ref(n)])

\* PushNav, liveview.go:848-878, called by a method of the view: it calls
\* HandleParams, and then starts the goroutine that sends on s.nav
PushNav(e) ==
    /\ InCallback
    /\ sock.view # 0
    /\ peers' = [Called EXCEPT !.navs = IF e THEN @ ELSE Append(@, NavMsg(sock, peers.calls + 1))]
    /\ task' = [task EXCEPT !.st.cbs = Append(@, "HandleParams")]
    /\ UNCHANGED <<sock, views, tvars>>

\* SendInfo, liveview.go:822-829, called by a method of the view: serve is
\* the only receiver of s.info and it is the caller
SendInfo ==
    /\ InCallback
    /\ task' = [task EXCEPT !.pc = "stuck"]
    /\ UNCHANGED <<sock, views, peers, tvars>>

(***************************************************************************)
(* The goroutine the view starts in Mount with the context of the session  *)
(* (examples/modal.gohtml:170-184).                                        *)
(***************************************************************************)
\* PushNav up to the call of HandleParams
BgPushNav ==
    /\ peers.bg = "idle"
    /\ peers.calls < MaxCalls
    /\ sock.view # 0
    /\ peers' = [peers EXCEPT !.bg = "HandleParams", !.calls = @ + 1]
    /\ UNCHANGED <<sock, views, task, tvars>>

\* HandleParams returns and PushNav goes on
BgPushNavReturn(e) ==
    /\ peers.bg = "HandleParams"
    /\ peers' = [peers EXCEPT !.bg = "idle",
                              !.navs = IF e THEN @ ELSE Append(@, NavMsg(sock, 0))]
    /\ UNCHANGED <<sock, views, task, tvars>>

Next ==
    \/ ReadError
    \/ \E m \in TextFrames(peers.sent + 1, peers.cjoin) : ServeMsg(m)
    \/ ServeInfo
    \/ \E fsok \in BOOLEAN : ServeUpload(fsok)
    \/ ServeNav
    \/ ServeReadErr
    \/ \E ok \in BOOLEAN : ServeWrite(ok)
    \/ \E e \in BOOLEAN, c \in {0, 1} : CbReturn(e, c)
    \/ PushEvent(Ref(peers.calls + 1))
    \/ \E t \in Titles : PageTitle(t)
    \/ Redirect(RedirectTo)
    \/ AllowUpload(UploadName, NoConstraints)
    \/ \E e \in BOOLEAN : PushNav(e)
    \/ SendInfo
    \/ BgPushNav
    \/ \E e \in BOOLEAN : BgPushNavReturn(e)

Spec == InitSession /\ [][Next]_vars

(***************************************************************************)
(* A session in which the client clicks: it joins, and then sends click    *)
(* events, among them the lv:clear-flash event of the client library.  The *)
(* view may redirect, and set a page title, which it may have from data    *)
(* that is not valid UTF-8.                                                *)
(***************************************************************************)
ClickSessionFrames(n, cj) ==
    IF n = 1 THEN {Msg(Ref(n), Ref(n), LvTopic, "phx_join", [url |-> RouteOK])}
    ELSE {Msg(cj, Ref(n), LvTopic, "event", [type |-> "click", event |-> e]) :
             e \in {"inc", ClearFlash}}

NextClicks ==
    \/ \E m \in ClickSessionFrames(peers.sent + 1, peers.cjoin) : ReceiveMsg(m, MaxFrames)
    \/ \E ok \in BOOLEAN : ServeWrite(ok)
    \/ \E e \in BOOLEAN, c \in {0, 1} : CbReturn(e, c)
    \/ Redirect(RedirectTo)
    \/ \E t \in Titles \cup {<<"T", BadByte>>} : PageTitle(t)

SpecClicks == InitSession /\ [][NextClicks]_vars

(***************************************************************************)
(* A session in which the client uploads: it joins, and then sends form    *)
(* events (with the files it selected, or none), allow_upload, progress    *)
(* and chunks; the view allows uploads and consumes them.                  *)
(***************************************************************************)
MaxUploadFrames == 5

File(ref, size, type) == [ref |-> ref, size |-> size, type |-> type]

\* the selections of the client: sizes around the 100 bytes of OneSmallFile
Selections ==
    {<<File("0", 100, "image/png"), File("1", 101, "text/plain")>>,
     <<File("0", 100, "text/plain"), File("1", 100, "application/pdf")>>,
     <<File("0", 100, "image/png")>>}

FormEvent(cj, n, uploads) ==
    Msg(cj, Ref(n), LvTopic, "event",
        [type |-> "form", event |-> "save", target |-> UploadName, uploads |-> uploads])

UploadSessionFrames(n, cj) ==
    IF n = 1 THEN {Msg(Ref(n), Ref(n), LvTopic, "phx_join", [url |-> RouteOK])}
    ELSE {FormEvent(cj, n, UploadRef :> sel) : sel \in Selections}
         \cup {FormEvent(cj, n, <<>>)}
         \cup {Msg(cj, Ref(n), LvTopic, "progress",
                   [ref |-> UploadRef, entry_ref |-> EntryRef, progress |-> p]) : p \in {50, 100}}
         \cup {Msg(cj, Ref(n), LvTopic, "allow_upload", [ref |-> UploadRef, entries |-> <<EntryRef>>])}

NextUploads ==
    \/ \E m \in UploadSessionFrames(peers.sent + 1, peers.cjoin) : ReceiveMsg(m, MaxUploadFrames)
    \/ \E fsok \in BOOLEAN, wrok \in BOOLEAN : ReceiveUpload(fsok, wrok, MaxUploadFrames)
    \/ \E ok \in BOOLEAN : ServeWrite(ok)
    \/ \E e \in BOOLEAN : CbReturn(e, 0)
    \/ \E o \in {NoConstraints, OneSmallFile} : AllowUpload(UploadName, o)
    \/ ConsumeUploadedEntries(UploadName)

SpecUploads == InitSession /\ [][NextUploads]_vars

(***************************************************************************)
(* A session with a wall clock, in which the client sends messages that    *)
(* serve answers with an error (an event it does not know), and            *)
(* heartbeats.                                                             *)
(***************************************************************************)
MaxErrorFrames == 5

ErrorSessionFrames(n) ==
    {Msg("", Ref(n), LvTopic, "bogus", <<>>), Msg("", Ref(n), "phoenix", "heartbeat", <<>>)}

NextErrors ==
    \/ \E m \in ErrorSessionFrames(peers.sent + 1) : ReceiveMsg(m, MaxErrorFrames)
    \/ WaitReturns
    \/ Tick
    \/ \E ok \in BOOLEAN : ServeWrite(ok)

InitErrors == InitConn(WsRoute, 0)

SpecErrors == InitErrors /\ [][NextErrors]_vars

(***************************************************************************)
(* The HTTP bridge, Config.Middleware (liveview.go:73-158): the dead       *)
(* render of a request.  The middleware runs up to the method of the view  *)
(* or of the config it calls; the return of each is a step of its own.     *)
(* task holds the request, the calls made so far in order, whether the     *)
(* next handler was called, the call that returned an error and the status *)
(* written; peers counts the requests served.                              *)
(***************************************************************************)
MaxRequests == 2

Urls == {RouteOK, RouteNone, "/a500", "/a503", "/a505", "/a205", "/x500", "/x505"}

NoRequest ==
    [pc |-> "request", url |-> "", should |-> TRUE, mounter |-> TRUE, paramsHandler |-> TRUE,
     cbs |-> <<>>, next |-> FALSE, failed |-> "", status |-> 0]

InitHTTP ==
    /\ sock = NewSocket("")
    /\ views = <<>>
    /\ task = NoRequest
    /\ peers = [served |-> 0]
    /\ heap = <<>>
    /\ nops = 0
    /\ bpanic = FALSE
    /\ out = <<>>
    /\ open = <<>>
    /\ iters = <<>>
    /\ templated = FALSE
    /\ oldRoot = 0
    /\ newRoot = 0
    /\ dres = [kind |-> "none"]

\* the middleware calls cb
Enter(t, cb) == [t EXCEPT !.pc = cb, !.cbs = Append(@, cb)]

\* http.Error(w, err.Error(), http.StatusInternalServerError); return
Fails(t) == [t EXCEPT !.pc = "responded", !.failed = t.pc, !.status = 500]

\* liveview.go:74-113, up to the first method of the view: should is what
\* ShouldHandleRequest answers (TRUE when it is nil), mounter and
\* paramsHandler are whether the view of the route implements Mounter and
\* ParamsHandler
Middleware(url, should, mounter, paramsHandler) ==
    /\ task.pc \in {"request", "responded"}
    /\ peers.served < MaxRequests
    /\ peers' = [peers EXCEPT !.served = @ + 1]
    /\ LET route == viewForRequest(url)
           t == [NoRequest EXCEPT !.url = url, !.should = should, !.mounter = mounter,
                                  !.paramsHandler = paramsHandler]
       IN IF ~should
          THEN task' = [t EXCEPT !.pc = "responded", !.next = TRUE] /\ views' = <<>>
          ELSE IF route.code % 100 = 5
          THEN task' = [t EXCEPT !.pc = "responded"] /\ views' = <<>>
          ELSE IF ~route.made
          THEN task' = [t EXCEPT !.pc = "responded", !.next = TRUE] /\ views' = <<>>
          ELSE /\ views' = <<NewView>>
               /\ task' = Enter(t, IF mounter THEN "Mount"
                                   ELSE IF paramsHandler THEN "HandleParams" ELSE "Render")
    /\ UNCHANGED sock
    /\ UNCHANGED tvars

\* Mount goes on with the lifecycle although it returned an error
MountReturnsGoesOn(err) ==
    /\ task.pc = "Mount"
    /\ task' = Enter(IF err THEN [task EXCEPT !.failed = "Mount", !.status = 500] ELSE task,
                     IF task.paramsHandler THEN "HandleParams" ELSE "Render")
    /\ UNCHANGED <<sock, views, peers>>
    /\ UNCHANGED tvars

\* m.Mount(ctx, Params{}) returns, liveview.go:106-113
MountReturns(err) ==
    /\ task.pc = "Mount"
    /\ task' = IF err THEN Fails(task)
               ELSE Enter(task, IF task.paramsHandler THEN "HandleParams" ELSE "Render")
    /\ UNCHANGED <<sock, views, peers>>
    /\ UNCHANGED tvars

\* hp.HandleParams(ctx, r.URL) returns, liveview.go:116-123
HandleParamsReturns(err) ==
    /\ task.pc = "HandleParams"
    /\ task' = IF err THEN Fails(task) ELSE Enter(task, "Render")
    /\ UNCHANGED <<sock, views, peers>>
    /\ UNCHANGED tvars

\* lv.Render(ctx, meta) returns, liveview.go:132-151
RenderReturns ==
    /\ task.pc = "Render"
    /\ task' = Enter(task, "RenderLayout")
    /\ UNCHANGED <<sock, views, peers>>
    /\ UNCHANGED tvars

\* c.RenderLayout(w, r, ldot) returns, liveview.go:151-152
RenderLayoutReturns ==
    /\ task.pc = "RenderLayout"
    /\ task' = Enter(task, "Execute")
    /\ UNCHANGED <<sock, views, peers>>
    /\ UNCHANGED tvars

\* lt.Execute(w, ld) returns, liveview.go:152-156
ExecuteReturns(err) ==
    /\ task.pc = "Execute"
    /\ task' = IF err THEN Fails(task) ELSE [task EXCEPT !.pc = "responded", !.status = 200]
    /\ UNCHANGED <<sock, views, peers>>
    /\ UNCHANGED tvars

NextHTTP ==
    \/ \E url \in Urls, should, mounter, paramsHandler \in BOOLEAN :
          Middleware(url, should, mounter, paramsHandler)
    \/ \E err \in BOOLEAN : MountReturns(err)
    \/ \E err \in BOOLEAN : HandleParamsReturns(err)
    \/ RenderReturns
    \/ RenderLayoutReturns
    \/ \E err \in BOOLEAN : ExecuteReturns(err)

SpecHTTP == InitHTTP /\ [][NextHTTP]_vars

(***************************************************************************)
(* The router seen from both sides: a request served by the HTTP bridge,   *)
(* or a connection on which the client joins the routes of the router and  *)
(* patches.                                                                *)
(***************************************************************************)
RouteSessionFrames(n, cj) ==
    {Msg(Ref(n), Ref(n), LvTopic, "phx_join", [url |-> u]) : u \in Urls}
    \cup {Msg(cj, Ref(n), LvTopic, "live_patch", [url |-> RouteOK])}

InitRoutes ==
    \/ InitHTTP
    \/ \E req \in {WsRoute, "/x500", "/x505"} : InitConn(req, NoClock)

NextRoutes ==
    \/ NextHTTP
    \/ /\ task.pc = "select"
       /\ \E m \in RouteSessionFrames(peers.sent + 1, peers.cjoin) : ReceiveMsg(m, MaxFrames)
    \/ \E ok \in BOOLEAN : ServeWrite(ok)
    \/ \E e \in BOOLEAN : CbReturn(e, 0)

SpecRoutes == InitRoutes /\ [][NextRoutes]_vars

(***************************************************************************)
(* Properties of the session.  A step of serve is looked at when its       *)
(* handler and the error path are done and the frames of task.res are      *)
(* about to be written.                                                    *)
(***************************************************************************)
Step == task.st
Written == task.res

\* the step has rendered the view and ended without an error
RenderedOK == task.pc = "write" /\ Step.rendered /\ ~Step.err

\* the text of the tree a frame carries: response.rendered, response.diff
\* or the payload of a diff frame
TreeText(f) ==
    IF f.kind = "diff" THEN f.Payload
    ELSE IF f.Response.Rendered # <<>> THEN f.Response.Rendered
    ELSE f.Response.Diff

\* the value under key k of the object the text holds, or none
Member(toks, k, none) ==
    IF UnmarshalMap(toks).ok /\ k \in DOMAIN UnmarshalMap(toks).v.v
    THEN UnmarshalMap(toks).v.v[k]
    ELSE none

\* the "e" key that delivers the events evq in their order
EventsValue(evq) == JArr([i \in DOMAIN evq |-> JArr(<<JStr(<<evq[i]>>), JObj(<<>>)>>)])

(***************************************************************************)
(* C2: every successful phx_join on an lv: topic, the first or a later     *)
(* one, is answered with one phx_reply whose response.rendered is the full *)
(* serialisation of the tree just rendered, and that tree becomes the diff *)
(* baseline.                                                               *)
(***************************************************************************)
C2_JoinRepliesRendered ==
    (/\ task.pc = "write"
     /\ Step.src = "msg"
     /\ Step.msg.Event = "phx_join"
     /\ Step.msg.Topic = LvTopic
     /\ ~Step.err)
    => /\ Step.rendered
       /\ Written = <<NewRendered(Step.msg, JSON(Step.tree, 1).toks)>>
       /\ sock.oldTree = Step.tree

(***************************************************************************)
(* C3: after every step that renders the view and writes the result (join, *)
(* event, live_patch, allow_upload, progress, info), the diff baseline     *)
(* oldTree is the tree that was just sent.                                 *)
(***************************************************************************)
C3_BaselineIsTreeSent ==
    (RenderedOK /\ Written # <<>>) => sock.oldTree = Step.tree

(***************************************************************************)
(* C4: at most one input is handled at a time, so no two methods of the    *)
(* view of one session ever run at once.                                   *)
(***************************************************************************)
C4_NoCallbacksOverlap ==
    ~(task.pc = "cb" /\ peers.bg = "HandleParams")

(***************************************************************************)
(* C5: when a handler returns an error the session stays in its loop,      *)
(* OnViewError is called once, and exactly one phx_error frame is written, *)
(* carrying the join_ref, msg_ref and topic of the initial join.           *)
(***************************************************************************)
C5_ErrorFrameOfInitialJoin ==
    (task.pc = "write" /\ Step.err /\ peers.firstJoin # NoJoin)
    => /\ Step.onViewError = 1
       /\ Cardinality({i \in DOMAIN Written : Written[i].kind = "error"}) = 1
       /\ \A i \in DOMAIN Written :
             Written[i].kind = "error" =>
                /\ Written[i].JoinRef = Ptr(peers.firstJoin.JoinRef)
                /\ Written[i].MsgRef = Ptr(peers.firstJoin.MsgRef)
                /\ Written[i].Topic = peers.firstJoin.Topic

(***************************************************************************)
(* C9: the events queued with PushEvent are delivered exactly once and in  *)
(* their order under the "e" key of the payload written for the next       *)
(* render, also when the previous render carried events; likewise the      *)
(* title set with PageTitle and the "t" key.                               *)
(***************************************************************************)
C9_EventsAndTitleDelivered ==
    (RenderedOK /\ Written # <<>>)
    => /\ sock.events = <<>>
       /\ sock.title = <<>>
       /\ Step.evq # <<>> =>
             Member(TreeText(Written[1]), <<"e">>, JArr(<<>>)) = EventsValue(Step.evq)
       /\ Step.titleq # <<>> =>
             Member(TreeText(Written[1]), <<"t">>, JStr(<<>>)) = JStr(Step.titleq)

(***************************************************************************)
(* C10: if the view calls Redirect(url) while an event message is handled, *)
(* the reply to that event is a redirect reply with to = url and the view  *)
(* is neither rendered nor diffed; if no redirect is queued, the reply is  *)
(* the diff of the new render against the baseline.                        *)
(***************************************************************************)
EventHandled ==
    /\ task.pc = "write"
    /\ Step.src = "msg"
    /\ Step.msg.Event = "event"
    /\ ~Step.err

C11_MountOnce ==
    peers.mounts <= 1

C13_LeaveWritesNothing ==
    (/\ task.pc = "write"
     /\ Step.src = "msg"
     /\ Step.msg.Event = "phx_leave"
     /\ ~Step.err)
    => /\ sock.view # 0 => Step.cbs = <<"Close">>
       /\ Written = <<>>

(***************************************************************************)
(* C14: an event message of type click, keyup, keydown, blur, focus or     *)
(* hook whose event name is lv:clear-flash does not invoke HandleEvent;    *)
(* every other event name of these types invokes HandleEvent exactly once. *)
(***************************************************************************)
HandleEventCalls == Cardinality({i \in DOMAIN Step.cbs : Step.cbs[i] = "HandleEvent"})

C14_ClearFlashBypassesView ==
    (/\ task.pc \in {"cb", "write"}
     /\ Step.src = "msg"
     /\ Step.msg.Event = "event"
     /\ Step.msg.Payload.type \in {"click", "keyup", "keydown", "blur", "focus", "hook"})
    => IF Step.msg.Payload.event = ClearFlash
       THEN HandleEventCalls = 0
       ELSE (task.pc = "write" /\ ~Step.err) => HandleEventCalls = 1

\* the entry a chunk sent on topic is for: the first entry with the ref of
\* the topic in the config the client last named in allow_upload
ChunkEntries(topic) ==
    {uc.Entries[i] : <<uc, i>> \in
        {<<uc, i>> \in UNION {{<<sock.uploadConfigs[n], i>> :
                                  i \in DOMAIN sock.uploadConfigs[n].Entries} :
                              n \in ConfigByRef(sock, sock.activeUploadRef)} :
            /\ uc.Entries[i].Ref = TopicRef(topic)
            /\ \A j \in 1..(i - 1) : uc.Entries[j].Ref # TopicRef(topic)}}

\* C15: an upload chunk for an entry whose progress is 0 is answered with
\* exactly two frames, an empty diff {} on the topic of the view and then
\* the ok reply on the topic of the upload; a chunk for an entry whose
\* progress is above 0 is answered with the ok reply only.
C15_ChunkFrames ==
    (task.pc = "write" /\ Step.src = "upload" /\ ~Step.err) =>
        \E e \in ChunkEntries(Step.msg.Topic) :
            IF e.Progress = 0
               THEN /\ Len(Written) = 2
                    /\ Written[1].kind = "diff"
                    /\ Written[1].Topic = LvTopic
                    /\ Written[1].Payload = EmptyObject
                    /\ Written[2].kind = "reply"
                    /\ Written[2].Topic = LvuTopic
                    /\ Written[2].Status = "ok"
                    /\ Written[2].MsgRef = Ptr(Step.msg.MsgRef)
               ELSE /\ Len(Written) = 1
                    /\ Written[1].kind = "reply"
                    /\ Written[1].Topic = LvuTopic
                    /\ Written[1].Status = "ok"
                    /\ Written[1].MsgRef = Ptr(Step.msg.MsgRef)

\* a first chunk has been answered with the empty diff and the ok reply
C15_Witness ==
    /\ task.pc = "write" /\ Step.src = "upload" /\ ~Step.err
    /\ \E e \in ChunkEntries(Step.msg.Topic) : e.Progress = 0
    /\ Len(Written) = 2

\* a later chunk has been answered with the ok reply alone
C15_LaterChunk ==
    /\ task.pc = "write" /\ Step.src = "upload" /\ ~Step.err
    /\ \E e \in ChunkEntries(Step.msg.Topic) : e.Progress > 0
    /\ Len(Written) = 1

\* the entries a progress message names: in the configs with the ref of the
\* payload, the places of the first entry with the entry ref of the payload
ProgressEntries(sk, m) ==
    {x \in UNION {{<<n, i>> : i \in DOMAIN sk.uploadConfigs[n].Entries} :
                      n \in ConfigByRef(sk, m.Payload.ref)} :
        /\ sk.uploadConfigs[x[1]].Entries[x[2]].Ref = m.Payload.entry_ref
        /\ \A j \in 1..(x[2] - 1) :
              sk.uploadConfigs[x[1]].Entries[j].Ref # m.Payload.entry_ref}

\* C18: a progress message that names a config ref or an entry ref the
\* socket does not have is handled as an error (the step ends in the error
\* path, no reply is written) and leaves every config as it was; one that
\* names an existing entry sets its progress, and done exactly when the
\* progress is 100.
C18_ProgressOfMissingIsError ==
    [][(/\ task.pc = "select"
        /\ task'.pc = "write"
        /\ task'.st.src = "msg"
        /\ task'.st.msg.Event = "progress") =>
          IF ProgressEntries(sock, task'.st.msg) = {}
          THEN /\ task'.st.err
               /\ \A i \in DOMAIN task'.res : task'.res[i].kind # "reply"
               /\ sock'.uploadConfigs = sock.uploadConfigs
          ELSE \A x \in ProgressEntries(sock, task'.st.msg) :
                  /\ sock'.uploadConfigs[x[1]].Entries[x[2]].Progress
                        = task'.st.msg.Payload.progress
                  /\ sock'.uploadConfigs[x[1]].Entries[x[2]].Done
                        = (task'.st.msg.Payload.progress = 100)]_vars

\* the path the chunks of an entry of uc are staged at: handleUpload stages
\* chunks for the config the client named in allow_upload only, so an entry
\* of another config has no staged path (NoPath)
NoPath == <<>>

StagedAt(uc, uuid) ==
    IF sock.activeUploadRef = uc.Ref THEN StagedPath(uc.Ref, uuid) ELSE NoPath

\* the calls the function given to ConsumeUploadedEntries gets when every
\* entry of the config is consumed: one per entry, in the order of the list
AllConsumed(uc) == [i \in DOMAIN uc.Entries |-> uc.Entries[i]]

\* C16: a call of ConsumeUploadedEntries on a config with an entry that is
\* not done fails fatally without calling the function for any entry and
\* without clearing the entries; on a config whose entries are all done it
\* calls the function once per entry in the order of the list, with the
\* staged path of the entry, and leaves the config without entries.
C16_ConsumeAllOrNothing ==
    \A c \in DOMAIN Step.consumed :
        LET call == Step.consumed[c]
        IN IF \E i \in DOMAIN call.config.Entries : ~call.config.Entries[i].Done
           THEN /\ call.panic
                /\ call.fn = <<>>
                /\ c = Len(Step.consumed) =>
                      /\ task.pc = "panic"
                      /\ sock.uploadConfigs[call.config.Name].Entries = call.config.Entries
           ELSE /\ ~call.panic
                /\ [i \in DOMAIN call.fn |-> call.fn[i].entry] = AllConsumed(call.config)
                /\ \A i \in DOMAIN call.fn :
                      StagedAt(call.config, call.fn[i].entry.UUID)
                         \in {NoPath, call.fn[i].Path}
                /\ (c = Len(Step.consumed) /\ task.pc = "cb"
                    /\ call.config.Name \in DOMAIN sock.uploadConfigs
                    /\ sock.uploadConfigs[call.config.Name].Ref = call.config.Ref) =>
                      sock.uploadConfigs[call.config.Name].Entries = <<>>

\* serve takes a form event whose uploads name the config of its target
FormStep ==
    /\ task.pc = "select"
    /\ task'.pc \in {"cb", "write"}
    /\ task'.st.src = "msg"
    /\ task'.st.msg.Event = "event"
    /\ task'.st.msg.Payload.type = "form"
    /\ task'.st.msg.Payload.target \in DOMAIN sock.uploadConfigs
    /\ sock.uploadConfigs[task'.st.msg.Payload.target].Ref
          \in DOMAIN task'.st.msg.Payload.uploads

\* the uuids of a list of entries
UUIDs(es) == {es[i].UUID : i \in DOMAIN es}

\* C17: a form event with uploads appends the entries it selects to the
\* entries of the config, each with a fresh UUID; the entries the config had
\* keep their place, uuid, progress and done.
C17_FormAppendsEntries ==
    [][FormStep =>
          LET name == task'.st.msg.Payload.target
              old == sock.uploadConfigs[name].Entries
              new == sock'.uploadConfigs[name].Entries
              sel == task'.st.msg.Payload.uploads[sock.uploadConfigs[name].Ref]
          IN /\ Len(new) = Len(old) + Len(sel)
             /\ \A i \in DOMAIN old :
                   /\ new[i].Ref = old[i].Ref
                   /\ new[i].UUID = old[i].UUID
                   /\ new[i].Progress = old[i].Progress
                   /\ new[i].Done = old[i].Done
             /\ \A i \in DOMAIN sel :
                   /\ new[Len(old) + i].Ref = sel[i].ref
                   /\ new[Len(old) + i].UUID \notin UUIDs(old)
                   /\ \A j \in DOMAIN sel :
                         new[Len(old) + i].UUID = new[Len(old) + j].UUID => i = j]_vars

\* the limits of a config with the defaults in place of its zero options
Effective(uc) ==
    [uc EXCEPT !.MaxEntries = NewUploadConstraints(uc).MaxEntries,
               !.MaxFileSize = NewUploadConstraints(uc).MaxFileSize,
               !.ChunkSize = NewUploadConstraints(uc).ChunkSize]

\* serve answers an allow_upload message that names a config of the socket
AllowUploadStep ==
    /\ task.pc = "select"
    /\ task'.pc = "write"
    /\ task'.st.src = "msg"
    /\ task'.st.msg.Event = "allow_upload"
    /\ ~task'.st.err

\* C19: a config made with max_entries, max_file_size or chunk_size zero
\* works with the defaults 10, 10 MiB and 64 KiB everywhere: the entries a
\* form event adds are validated against the defaults (size and number of
\* entries) and the reply to allow_upload carries the same defaults.
C19_DefaultsInEffect ==
    [][/\ FormStep =>
             LET name == task'.st.msg.Payload.target
                 uc == sock.uploadConfigs[name]
                 uc1 == sock'.uploadConfigs[name]
                 sel == task'.st.msg.Payload.uploads[uc.Ref]
             IN /\ \A i \in DOMAIN uc1.Entries :
                      uc1.Entries[i].Size <= Effective(uc).MaxFileSize
                         => \A k \in DOMAIN uc1.Entries[i].Errors :
                               uc1.Entries[i].Errors[k][1] # "file size exceeds max of"
                /\ Len(sel) <= Effective(uc).MaxEntries => uc1.Errors = uc.Errors
       /\ AllowUploadStep =>
             \A n \in ConfigByRef(sock, task'.st.msg.Payload.ref) :
                /\ Len(task'.res) = 1
                /\ task'.res[1].Response.Config
                      = <<[ChunkSize |-> Effective(sock.uploadConfigs[n]).ChunkSize,
                           MaxEntries |-> Effective(sock.uploadConfigs[n]).MaxEntries,
                           MaxFileSize |-> Effective(sock.uploadConfigs[n]).MaxFileSize]>>]_vars

\* the MIME types a config accepts: those its Accept list names, and those
\* one of whose extensions its Accept list names
Accepted(uc) ==
    {t \in {"image/png", "text/plain", "application/pdf"} :
        \E k \in DOMAIN uc.Accept :
            uc.Accept[k] \in {t} \cup {ExtensionsByType(t)[j] : j \in DOMAIN ExtensionsByType(t)}}

C21_MaxEntriesErrorOnlyForBatch ==
    [][FormStep =>
          LET name == task'.st.msg.Payload.target
              uc == sock.uploadConfigs[name]
              uc1 == sock'.uploadConfigs[name]
              batch == task'.st.msg.Payload.uploads[uc.Ref]
          IN (\E k \in DOMAIN uc1.Errors : uc1.Errors[k][1] = "max entries exceeded")
                => Len(batch) > uc.MaxEntries]_vars

\* the steps of the dead render in their order
DeadRender == <<"Mount", "HandleParams", "Render", "RenderLayout", "Execute">>

\* the steps of the dead render of a view, which has Mount and HandleParams
\* or not
DeadRenderOf(mounter, paramsHandler) ==
    (IF mounter THEN <<"Mount">> ELSE <<>>)
    \o (IF paramsHandler THEN <<"HandleParams">> ELSE <<>>)
    \o <<"Render", "RenderLayout", "Execute">>

\* C23: the dead render runs Mount, HandleParams, Render and the layout in
\* that order; when Mount or HandleParams returns an error the response is
\* a 500 and no later step is run.
C23_DeadRenderOrder ==
    /\ \E n \in 0..Len(DeadRenderOf(task.mounter, task.paramsHandler)) :
          task.cbs = SubSeq(DeadRenderOf(task.mounter, task.paramsHandler), 1, n)
    /\ task.status = 200 => task.cbs = DeadRenderOf(task.mounter, task.paramsHandler)
    /\ task.failed \in {"Mount", "HandleParams"} =>
          /\ task.pc = "responded"
          /\ task.status = 500
          /\ task.cbs # <<>>
          /\ task.cbs[Len(task.cbs)] = task.failed

\* HandleParams has returned an error after Mount returned none
C23_Witness ==
    /\ task.failed = "HandleParams"
    /\ task.cbs = <<"Mount", "HandleParams">>
    /\ task.status = 500

\* a status code of the router that is a server error
ServerError(code) == code \in 500..599

\* C22: the answer of the router is a server error exactly when its status
\* is in 500..599.  In the HTTP bridge such an answer stops the chain: no
\* step of the dead render is run and the next handler is not called; in
\* phx_join and live_patch it is a view error.  With another status and a
\* view set, the lifecycle is entered.
C22_ServerErrorIs5xx ==
    /\ (task.pc \in {"Mount", "HandleParams", "Render", "RenderLayout", "Execute", "responded"}
        /\ task.should) =>
          IF ServerError(viewForRequest(task.url).code)
          THEN task.pc = "responded" /\ task.cbs = <<>> /\ ~task.next
          ELSE viewForRequest(task.url).made =>
                  /\ task.cbs # <<>>
                  /\ task.cbs[1] = DeadRenderOf(task.mounter, task.paramsHandler)[1]
    /\ (task.pc \in {"cb", "write"} /\ Step.src = "msg" /\ Step.msg.Event = "phx_join"
        /\ Step.msg.Topic = LvTopic) =>
          IF ServerError(viewForRequest(Step.msg.Payload.url).code)
          THEN task.pc = "write" /\ Step.err /\ Step.cbs = <<>>
          ELSE viewForRequest(Step.msg.Payload.url).made =>
                  Step.cbs # <<>> /\ Step.cbs[1] = "Mount"
    /\ (task.pc \in {"cb", "write"} /\ Step.src = "msg" /\ Step.msg.Event = "live_patch") =>
          IF ServerError(viewForRequest(sock.req).code)
          THEN task.pc = "write" /\ Step.err /\ Step.cbs = <<>>
          ELSE sock.view # 0 => Step.cbs # <<>> /\ Step.cbs[1] = "HandleParams"

\* a tree with a title or a string that is not valid UTF-8
InvalidUTF8(tree) ==
    \E n \in DOMAIN tree :
        \/ \E i \in DOMAIN tree[n].Title : tree[n].Title[i] = BadByte
        \/ /\ ~tree[n].isRange
           /\ \E d \in DOMAIN tree[n].Dynamics :
                 /\ tree[n].Dynamics[d].kind = "string"
                 /\ \E i \in DOMAIN tree[n].Dynamics[d].s : tree[n].Dynamics[d].s[i] = BadByte

\* C24: when the tree a step of the session rendered holds a string that is
\* not valid UTF-8, the step ends in the view-error path: OnViewError is
\* called, phx_error is the frame to write and the session goes on serving;
\* the session does not crash.
C24_InvalidUTF8IsViewError ==
    (task.pc \in {"write", "panic"} /\ Step.rendered /\ InvalidUTF8(Step.tree)) =>
        /\ task.pc = "write"
        /\ Step.err
        /\ Step.onViewError = 1
        /\ Written # <<>>
        /\ Written[Len(Written)].kind = "error"
        /\ peers.conn = "open"

\* the seconds of credit, at time t, of a bucket of capacity 3 that gains a
\* token every 15 seconds, was full at time 0 and has given a token at the
\* end of each of the waits before the i-th
RECURSIVE BucketAt(_, _, _)
BucketAt(waits, i, t) ==
    IF i = 1 THEN 3 * 15
    ELSE LET c == BucketAt(waits, i - 1, waits[i - 1].got) - 15 + (t - waits[i - 1].got)
         IN IF c > 3 * 15 THEN 3 * 15 ELSE c

\* C25: phx_error is written only after a token was taken from a bucket of
\* capacity 3 that gains one token every 15 seconds.  The first three errors
\* of a fresh session are answered without waiting; a later error that
\* finds no token is not answered, and no other input is handled, until a
\* token is there.
C25_ErrorsPacedByBucket ==
    /\ \A i \in DOMAIN peers.waits :
          LET w == peers.waits[i]
          IN IF w.got = NoClock
             THEN i = Len(peers.waits) /\ task.pc = "wait"
             ELSE /\ w.got >= w.asked
                  /\ BucketAt(peers.waits, i, w.got) >= 15
                  /\ BucketAt(peers.waits, i, w.asked) >= 15 => w.got = w.asked
                  /\ i <= 3 => w.got = w.asked
                  /\ w.sentGot = w.sent
    /\ task.pc = "wait" => \A k \in DOMAIN task.res : task.res[k].kind # "error"
    /\ (task.pc = "write" /\ \E k \in DOMAIN Written : Written[k].kind = "error") =>
          /\ peers.waits # <<>>
          /\ peers.waits[Len(peers.waits)].got # NoClock
          /\ peers.waits[Len(peers.waits)].sentGot = peers.sent

\* a fourth error has been answered, and later than it was found
C25_Witness ==
    /\ task.pc = "write"
    /\ Len(peers.waits) = 4
    /\ peers.waits[4].asked < 15
    /\ peers.waits[4].got = 15
    /\ Written # <<>>
    /\ Written[Len(Written)].kind = "error"

\* ---------------------------------------------------------------------
\* The wire formats of package phx: the binary upload frame (upload.go)
\* and the JSON text frame (phx.go)

MaxBytes == 7

\* the byte values the frames are drawn from
ByteVals == {0, 1, 97}

RECURSIVE BytesOfLen(_)
BytesOfLen(n) ==
    IF n = 0 THEN {<<>>}
    ELSE {Append(b, x) : b \in BytesOfLen(n - 1), x \in ByteVals}

\* data[lo:hi]
Slice(data, lo, hi) == SubSeq(data, lo + 1, hi)

\* phx.UploadMsg, upload.go:9-15
UploadMsg(joinRef, msgRef, topic, event, payload) ==
    [JoinRef |-> joinRef, MsgRef |-> msgRef, Topic |-> topic, Event |-> event, Payload |-> payload]

\* (*UploadMsg).Equal, upload.go:17-19
Equal(u, v) ==
    /\ u.JoinRef = v.JoinRef
    /\ u.MsgRef = v.MsgRef
    /\ u.Topic = v.Topic
    /\ u.Event = v.Event
    /\ u.Payload = v.Payload

\* a decoder that reads frames of every version: byte 0 is not checked
UnmarshalBinaryAnyVersion(data) ==
    IF Len(data) < 5 THEN [err |-> TRUE, u |-> <<>>]
    ELSE LET ss == data[1]
             j == data[2]
             m == data[3]
             t == data[4]
             e == data[5]
             hl == ss + j + m + t + e
         IN IF 5 + hl > Len(data) THEN [err |-> TRUE, u |-> <<>>]
            ELSE LET h == Slice(data, 5, 5 + hl)
                 IN [err |-> FALSE,
                     u |-> <<UploadMsg(Slice(h, 0, j),
                                       Slice(h, j, j + m),
                                       Slice(h, j + m, j + m + t),
                                       Slice(h, j + m + t, j + m + t + e),
                                       Slice(data, 5 + hl, Len(data)))>>]

\* (*UploadMsg).UnmarshalBinary, upload.go:21-59
UnmarshalBinary(data) ==
    IF Len(data) < 5 THEN [err |-> TRUE, u |-> <<>>]
    ELSE LET ss == data[1]
             j == data[2]
             m == data[3]
             t == data[4]
             e == data[5]
             hl == ss + j + m + t + e
         IN IF ss # 0 THEN [err |-> TRUE, u |-> <<>>]
            ELSE IF 5 + hl > Len(data) THEN [err |-> TRUE, u |-> <<>>]
            ELSE LET h == Slice(data, 5, 5 + hl)
                 IN [err |-> FALSE,
                     u |-> <<UploadMsg(Slice(h, 0, j),
                                       Slice(h, j, j + m),
                                       Slice(h, j + m, j + m + t),
                                       Slice(h, j + m + t, j + m + t + e),
                                       Slice(data, 5 + hl, Len(data)))>>]

\* byte(n): the low eight bits
byte(n) == n % 256

\* (*UploadMsg).MarshalBinary, upload.go:61-90; it has no error return
\* other than nil
MarshalBinary(u) ==
    [err |-> FALSE,
     b |-> <<0, byte(Len(u.JoinRef)), byte(Len(u.MsgRef)), byte(Len(u.Topic)), byte(Len(u.Event))>>
           \o u.JoinRef \o u.MsgRef \o u.Topic \o u.Event \o u.Payload]

MaxElems == 6

\* decoded JSON values, by kind; v is the text of a string
JsonNull == [k |-> "null", v |-> ""]
JsonString(str) == [k |-> "string", v |-> str]
JsonNumber == [k |-> "number", v |-> ""]
JsonObject == [k |-> "object", v |-> ""]

Elems == {JsonNull, JsonString("a"), JsonNumber, JsonObject}

RECURSIVE ElemsOfLen(_)
ElemsOfLen(n) ==
    IF n = 0 THEN {<<>>}
    ELSE {Append(a, x) : a \in ElemsOfLen(n - 1), x \in Elems}

\* the texts handed to Parse: no JSON at all, a JSON value that is not
\* an array, or an array of elements
FrameTexts ==
    {[top |-> "invalid", elems |-> <<>>], [top |-> "null", elems |-> <<>>],
     [top |-> "string", elems |-> <<>>], [top |-> "number", elems |-> <<>>],
     [top |-> "object", elems |-> <<>>]}
        \cup {[top |-> "array", elems |-> a] : a \in UNION {ElemsOfLen(n) : n \in 0..MaxElems}}

\* json.Unmarshal(msg, &raw) with raw a []any, phx.go:17-21: a syntax
\* error or a value that is no array is an error, null leaves raw nil
jsonUnmarshal(msg) ==
    CASE msg.top = "array" -> [err |-> FALSE, raw |-> msg.elems]
      [] msg.top = "null" -> [err |-> FALSE, raw |-> <<>>]
      [] OTHER -> [err |-> TRUE, raw |-> <<>>]

\* a type assertion that lets every value through
IsMapAlways(x) == TRUE

\* x.(map[string]any), phx.go:41-44
IsMap(x) == x.k = "object"

\* phx.Parse, phx.go:16-56
Parse(msg) ==
    LET d == jsonUnmarshal(msg)
        raw == d.raw
        strings == [i \in 1..4 |-> IF raw[i].k = "string" THEN raw[i].v ELSE ""]
    IN IF d.err THEN [msg |-> <<>>, err |-> TRUE]
       ELSE IF Len(raw) # 5 THEN [msg |-> <<>>, err |-> TRUE]
       ELSE IF \E i \in 1..4 : raw[i].k \notin {"null", "string"}
            THEN [msg |-> <<>>, err |-> TRUE]
       ELSE IF ~IsMap(raw[5]) THEN [msg |-> <<>>, err |-> TRUE]
       ELSE [msg |-> <<Msg(strings[1], strings[2], strings[3], strings[4], raw[5])>>,
             err |-> FALSE]

MaxField == 256

\* n bytes
Run(n) == [i \in 1..n |-> 97]

\* the values of a field of an UploadMsg: empty, short, and the two
\* lengths around the range of a length byte
Fields == {<<>>, <<97>>, Run(MaxField - 1), Run(MaxField)}

UploadMsgs ==
    {UploadMsg(j, m, t, e, p) : j \in Fields, m \in Fields, t \in Fields, e \in Fields,
                                p \in {<<>>, <<1>>}}

\* one input of one of the three kinds
InitWire ==
    /\ \/ \E b \in UNION {BytesOfLen(n) : n \in 0..MaxBytes} : task = [pc |-> "bytes", in |-> b]
       \/ \E u \in UploadMsgs : task = [pc |-> "msg", in |-> u]
       \/ \E x \in FrameTexts : task = [pc |-> "text", in |-> x]
    /\ sock = <<>>
    /\ views = <<>>
    /\ peers = <<>>
    /\ heap = <<>>
    /\ nops = 0
    /\ bpanic = FALSE
    /\ out = <<>>
    /\ open = <<>>
    /\ iters = <<>>
    /\ templated = FALSE
    /\ oldRoot = 0
    /\ newRoot = 0
    /\ dres = [kind |-> "none"]

\* FuzzUploadMsgUnmarshalBinary: decode, and encode what was decoded
FuzzUploadMsgUnmarshalBinary ==
    /\ task.pc = "bytes"
    /\ dres.kind = "none"
    /\ \E r \in {UnmarshalBinary(task.in)} :
          dres' = [kind |-> "unmarshal",
                   err |-> r.err,
                   u |-> r.u,
                   b |-> IF r.err THEN <<>> ELSE <<MarshalBinary(r.u[1])>>]
    /\ UNCHANGED <<heap, bvars, oldRoot, newRoot, svars>>

\* encode a message, and decode what was encoded
MarshalUnmarshal ==
    /\ task.pc = "msg"
    /\ dres.kind = "none"
    /\ \E r \in {MarshalBinary(task.in)} :
          dres' = [kind |-> "marshal",
                   err |-> r.err,
                   b |-> r.b,
                   back |-> IF r.err THEN <<>> ELSE <<UnmarshalBinary(r.b)>>]
    /\ UNCHANGED <<heap, bvars, oldRoot, newRoot, svars>>

\* FuzzPhxParse
FuzzPhxParse ==
    /\ task.pc = "text"
    /\ dres.kind = "none"
    /\ \E r \in {Parse(task.in)} :
          dres' = [kind |-> "parse", msg |-> r.msg, err |-> r.err]
    /\ UNCHANGED <<heap, bvars, oldRoot, newRoot, svars>>

NextWire == FuzzUploadMsgUnmarshalBinary \/ MarshalUnmarshal \/ FuzzPhxParse

SpecWire == InitWire /\ [][NextWire]_vars

\* C26: every byte sequence that UnmarshalBinary accepts is returned
\* byte for byte by MarshalBinary of the decoded message, and the inputs
\* UnmarshalBinary rejects are exactly those shorter than 5 bytes, those
\* whose byte 0 is not zero, and those whose four declared lengths exceed
\* what is left of the buffer after the 5 header bytes.
C26_UnmarshalMarshalRoundTrip ==
    dres.kind = "unmarshal" =>
        LET data == task.in
        IN /\ dres.err <=>
                \/ Len(data) < 5
                \/ data[1] # 0
                \/ data[2] + data[3] + data[4] + data[5] > Len(data) - 5
           /\ ~dres.err =>
                /\ dres.b # <<>>
                /\ ~dres.b[1].err
                /\ dres.b[1].b = data

\* an accepted frame with a topic and a payload has been encoded again
C26_Witness ==
    /\ dres.kind = "unmarshal"
    /\ ~dres.err
    /\ dres.u[1].Topic # <<>>
    /\ dres.u[1].Payload # <<>>
    /\ dres.b[1].b = task.in

\* C27: every UploadMsg that MarshalBinary encodes without error is
\* decoded by UnmarshalBinary, without error, to a message Equal to it,
\* whatever the lengths of its join_ref, msg_ref, topic and event.
C27_MarshalUnmarshalRoundTrip ==
    (dres.kind = "marshal" /\ ~dres.err) =>
        /\ ~dres.back[1].err
        /\ Equal(dres.back[1].u[1], task.in)

\* C28: Parse returns exactly one of a message and an error; it returns
\* a message only for a JSON array of exactly 5 elements whose first four
\* are strings or null and whose fifth is an object, and a null join_ref
\* or msg_ref is read as the empty string.
C28_ParseShape ==
    dres.kind = "parse" =>
        LET x == task.in
        IN /\ (dres.msg # <<>>) <=> ~dres.err
           /\ dres.msg # <<>> =>
                /\ x.top = "array"
                /\ Len(x.elems) = 5
                /\ \A i \in 1..4 : x.elems[i].k \in {"string", "null"}
                /\ x.elems[5].k = "object"
                /\ x.elems[1].k = "null" => dres.msg[1].JoinRef = ""
                /\ x.elems[2].k = "null" => dres.msg[1].MsgRef = ""
                /\ x.elems[1].k = "string" => dres.msg[1].JoinRef = x.elems[1].v
                /\ x.elems[2].k = "string" => dres.msg[1].MsgRef = x.elems[2].v

\* a frame with a null join_ref and a msg_ref has been parsed
C28_Witness ==
    /\ dres.kind = "parse"
    /\ dres.msg # <<>>
    /\ task.in.elems[1].k = "null"
    /\ task.in.elems[2].k = "string"
    /\ dres.msg[1].JoinRef = ""
    /\ dres.msg[1].MsgRef = "a"

\* serve takes a heartbeat
HeartbeatStep ==
    /\ task.pc = "select"
    /\ task'.st.src = "msg"
    /\ task'.st.msg.Event = "heartbeat"

\* C29: a heartbeat with msg_ref r is answered with exactly one frame,
\* [null, r, "phoenix", "phx_reply", {"response":{},"status":"ok"}]; handling
\* it calls no method of the view and leaves the view, the diff baseline,
\* the upload state and the rest of the socket as they were.
C29_HeartbeatReply ==
    [][HeartbeatStep =>
          /\ task'.pc = "write"
          /\ Len(task'.res) = 1
          /\ task'.res[1].kind = "reply"
          /\ task'.res[1].JoinRef = <<>>
          /\ task'.res[1].MsgRef = <<task'.st.msg.MsgRef>>
          /\ task'.res[1].Topic = "phoenix"
          /\ task'.res[1].Event = "phx_reply"
          /\ task'.res[1].Status = "ok"
          /\ \A f \in DOMAIN task'.res[1].Response : task'.res[1].Response[f] = <<>>
          /\ task'.st.cbs = <<>>
          /\ ~task'.st.err
          /\ views' = views
          /\ sock' = sock
          /\ heap' = heap]_vars

\* a heartbeat has been answered in a session that has a view, a diff
\* baseline and an upload config
C29_Witness ==
    /\ task.pc = "write"
    /\ Step.src = "msg"
    /\ Step.msg.Event = "heartbeat"
    /\ Len(Written) = 1
    /\ sock.view # 0
    /\ sock.oldTree # <<>>
    /\ sock.uploadConfigs # <<>>

\* C30: serialising a tree is repeatable: the bytes of the old tree and of
\* the new tree, serialised after they have been passed to Diff, are the
\* bytes of their serialisation before it.
C30_SerialisationRepeatable ==
    dres.kind \in {"diff", "Diff"} =>
        /\ JSON(heap, oldRoot).toks = dres.oldJSON
        /\ JSON(heap, newRoot).toks = dres.newJSON

\* the outcomes of DiffMap(old.Map(), new.Map()) for the two trees as they
\* were serialised before the diff
DiffMapOfRenders ==
    UNION {DiffMap(o.m, n.m) : o \in {MapOfParsed(UnmarshalMap(dres.oldJSON))},
                               n \in {MapOfParsed(UnmarshalMap(dres.newJSON))}}

\* C31: for two renders of the same template the structural diff and the
\* map-based diff agree: the JSON of diff(old, new), {} when it is nil,
\* decodes to the map DiffMap(old.Map(), new.Map()) returns.
C31_DiffAgreesWithDiffMap ==
    dres.kind = "diff" =>
        /\ ~dres.panic
        /\ UnmarshalMap(dres.diffJSON).ok
        /\ \A md \in DiffMapOfRenders :
              /\ ~md.panic
              /\ UnmarshalMap(dres.diffJSON).v.v = md.m

\* C35: DiffMap is deterministic: whatever the order in which the keys of
\* new are visited it returns one and the same diff.
C35_DiffMapDeterministic ==
    dres.kind \in {"diff", "Diff"} => Cardinality(DiffMapOfRenders) = 1

\* the renders of every template
Renders == UNION {{Templates[tp][a] : a \in 1..Len(Templates[tp])} : tp \in 1..Len(Templates)}

\* Diff and DiffMap are exported and take any two trees, any two maps: the
\* old and the new tree are renders of any two templates
InitDiffAny ==
    /\ \E ro \in Renders, rn \in Renders :
          LET h1 == Render(<<>>, ro)
              h2 == Render(h1, rn)
          IN /\ heap = h2
             /\ oldRoot = 1
             /\ newRoot = Len(h1) + 1
    /\ dres = [kind |-> "none"]
    /\ nops = 0
    /\ bpanic = FALSE
    /\ out = <<>>
    /\ open = <<>>
    /\ iters = <<>>
    /\ templated = TRUE
    /\ NoSession

SpecDiffAny == InitDiffAny /\ [][NextDiff]_vars

(***************************************************************************)
(* One range subtree (tree 2, made by AppendRangeSub on the root) filled   *)
(* by iterations that each append k dynamics and end with IncRangeStep;    *)
(* AppendStatic is called at any point, with any text.  task counts the    *)
(* dynamics of the iteration under way and the iterations done, keeps the  *)
(* statics the range had at its first IncRangeStep, and notes a call of    *)
(* AppendStatic made after it.                                             *)
(***************************************************************************)
MaxRow == 2

InitRange ==
    /\ heap = HAppendRangeSub(<< NewTree >>, 1)
    /\ \E k \in 0..MaxRow : task = [k |-> k, cur |-> 0, done |-> 0, statics |-> <<>>, late |-> FALSE]
    /\ nops = 0
    /\ bpanic = FALSE
    /\ out = <<>>
    /\ open = <<>>
    /\ iters = <<>>
    /\ templated = FALSE
    /\ oldRoot = 0
    /\ newRoot = 0
    /\ dres = [kind |-> "none"]
    /\ sock = <<>>
    /\ views = <<>>
    /\ peers = <<>>

RangeAppendStatic(text) ==
    /\ CanCall
    /\ heap' = HAppendStatic(heap, 2, text)
    /\ task' = [task EXCEPT !.late = @ \/ task.done > 0]
    /\ nops' = nops + 1
    /\ UNCHANGED <<bpanic, out, open, iters, templated, dvars, sock, views, peers>>

RangeAppendDynamic(d) ==
    /\ CanCall
    /\ task.cur < task.k
    /\ IF appendDynamicPanics(heap[2])
       THEN bpanic' = TRUE /\ UNCHANGED heap
       ELSE heap' = HAppendDynamic(heap, 2, d) /\ UNCHANGED bpanic
    /\ task' = [task EXCEPT !.cur = @ + 1]
    /\ nops' = nops + 1
    /\ UNCHANGED <<out, open, iters, templated, dvars, sock, views, peers>>

RangeAppendSub ==
    /\ CanCall
    /\ task.cur < task.k
    /\ Len(heap) < MaxNodes
    /\ IF appendDynamicPanics(heap[2])
       THEN bpanic' = TRUE /\ UNCHANGED heap
       ELSE heap' = HAppendSub(heap, 2) /\ UNCHANGED bpanic
    /\ task' = [task EXCEPT !.cur = @ + 1]
    /\ nops' = nops + 1
    /\ UNCHANGED <<out, open, iters, templated, dvars, sock, views, peers>>

RangeIncRangeStep ==
    /\ CanCall
    /\ task.cur = task.k
    /\ heap' = HIncRangeStep(heap, 2)
    /\ task' = [task EXCEPT !.cur = 0, !.done = @ + 1,
                            !.statics = IF task.done = 0 THEN heap[2].Statics ELSE @]
    /\ nops' = nops + 1
    /\ UNCHANGED <<bpanic, out, open, iters, templated, dvars, sock, views, peers>>

NextRange ==
    \/ \E text \in Texts \cup {<<"b">>} : RangeAppendStatic(text)
    \/ \E d \in DynVals : RangeAppendDynamic(d)
    \/ RangeAppendSub
    \/ RangeIncRangeStep

SpecRange == InitRange /\ [][NextRange]_vars

\* C32: in a range subtree whose iterations each end with IncRangeStep and
\* each append the same number k of dynamics, the statics stay what they
\* were at the first IncRangeStep whatever AppendStatic is called later,
\* every row of dynamics has length k (the row under way has as many as were
\* appended to it), and the number of statics is k + 1 after every call.
C32_RangeShape ==
    LET t == heap[2]
    IN /\ ~bpanic
       /\ t.rangeStep = task.done
       /\ task.done > 0 =>
            /\ t.Statics = task.statics
            /\ Len(t.Statics) = task.k + 1
            /\ \A i \in 1..Len(t.Dynamics) :
                  Len(t.Dynamics[i]) = IF i <= task.done THEN task.k ELSE task.cur
            /\ Len(t.Dynamics) = IF task.k = 0 THEN 0
                                 ELSE IF task.cur > 0 THEN task.done + 1 ELSE task.done

\* two iterations of two dynamics are done, and AppendStatic has been
\* called after them
C32_Witness ==
    /\ task.k = 2
    /\ task.done = 2
    /\ task.late
    /\ Len(heap[2].Dynamics) = 2
    /\ Len(heap[2].Statics) = 3

\* C33: a method of the view that calls SendInfo while it runs inside the
\* serve loop returns: serve is never blocked for good in the send on its
\* own info channel.
C33_SendInfoReturns ==
    task.pc # "stuck"

\* serve takes an event, live_patch, allow_upload, progress, info or upload
\* chunk while the session has no view
NoViewStep ==
    /\ task.pc = "select"
    /\ sock.view = 0
    /\ \/ task'.st.src \in {"info", "upload"}
       \/ /\ task'.st.src = "msg"
          /\ task'.st.msg.Event \in {"event", "live_patch", "allow_upload", "progress"}

\* C34: while the session has no view the view is not rendered and no
\* method of it is called: an event, live_patch, allow_upload, progress,
\* info or upload chunk that arrives before a successful lv: join ends in
\* the error outcome, with a phx_error frame, and never in the render of a
\* nil view.
C34_NoViewNoRender ==
    [][NoViewStep =>
          /\ task'.pc = "write"
          /\ task'.st.err
          /\ ~task'.st.rendered
          /\ task'.st.cbs = <<>>
          /\ task'.res # <<>>
          /\ task'.res[Len(task'.res)].kind = "error"]_vars

\* C36: when the append of an upload chunk to its staging file fails,
\* handleUpload returns an error, which leads to the view error and the
\* phx_error frame, and no ok reply is sent for the chunk.
C36_FailedWriteIsError ==
    (task.pc = "write" /\ Step.src = "upload" /\ Step.wrote = "failed") =>
        /\ Step.err
        /\ \A i \in DOMAIN Written : Written[i].kind # "reply"
        /\ \E i \in DOMAIN Written : Written[i].kind = "error"

(***************************************************************************)
(* A session in which the client joins, clicks and patches to a URL, the   *)
(* methods of the view call PushNav, and the connection may fail.          *)
(***************************************************************************)
PatchUrls == {RouteOK, "/b"}

NavSessionFrames(n, cj) ==
    IF n = 1 THEN {Msg(Ref(n), Ref(n), LvTopic, "phx_join", [url |-> RouteOK])}
    ELSE {Msg(cj, Ref(n), LvTopic, "event", [type |-> "click", event |-> "inc"])}
         \cup {Msg(cj, Ref(n), LvTopic, "live_patch", [url |-> u]) : u \in PatchUrls}

\* serve has returned and the deferred conn.Close (liveview.go:237) has
\* closed the connection: ReadMessage fails and the reader offers the error
\* on s.readerr (liveview.go:256-259), which has no receiver any more
ReadAfterReturn ==
    /\ task.pc \in {"done", "panic"}
    /\ peers.rd.st = "read"
    /\ peers' = [peers EXCEPT !.conn = "closed", !.rd = [st |-> "err"]]
    /\ UNCHANGED <<sock, views, task, tvars>>

NextNav ==
    \/ ReadError
    \/ ReadAfterReturn
    \/ \E m \in NavSessionFrames(peers.sent + 1, peers.cjoin) : ReceiveMsg(m, MaxFrames)
    \/ ServeNav
    \/ ServeReadErr
    \/ \E ok \in BOOLEAN : ServeWrite(ok)
    \/ \E e \in BOOLEAN : CbReturn(e, 0)
    \/ \E e \in BOOLEAN : PushNav(e)

SpecNav == InitSession /\ [][NextNav]_vars

\* the same session under a scheduler that runs the reader goroutine: once
\* serve has returned the reader is the only goroutine left that can take a
\* step
SpecNavFair == SpecNav /\ WF_vars(ReadAfterReturn)

\* C37: once serve has returned, after a read error or a failed write, the
\* reader goroutine and every goroutine PushNav started to send a nav frame
\* terminate: none stays blocked in its send on a channel of the socket.
C37_GoroutinesTerminate ==
    [](task.pc = "done" => <>(peers.rd.st = "exit" /\ peers.navs = <<>>))

\* serve takes a nav frame from one of the goroutines PushNav started
NavStep ==
    /\ task.pc = "select"
    /\ task'.st.src = "nav"

\* C38: nav frames reach the client in the order of the calls of PushNav:
\* the frame serve takes, and writes, is that of the earliest call whose
\* frame is still to be sent, and a frame is taken only once the handler
\* that called PushNav has returned and its reply has been written.
C38_NavInCallOrder ==
    [][NavStep =>
          /\ peers.navs # <<>>
          /\ task'.st.msg = peers.navs[1]
          /\ task'.res = <<peers.navs[1]>>]_vars

\* a redirect reply has been sent, and now serve has handled an event
\* whose handler did not call Redirect
EventAfterRedirect ==
    /\ peers.redirected
    /\ task.pc \in {"select", "cb"}
    /\ task'.pc = "write"
    /\ task'.st.src = "msg"
    /\ task'.st.msg.Event = "event"
    /\ ~task'.st.err
    /\ task'.st.redirect = ""

\* C39: a redirect is delivered once: after a redirect reply has been sent,
\* an event whose handler does not call Redirect is answered with a diff
\* reply, and not with the earlier redirect again.
C39_RedirectDeliveredOnce ==
    [][EventAfterRedirect =>
          /\ task'.st.rendered
          /\ Len(task'.res) = 1
          /\ task'.res[1].kind = "reply"
          /\ task'.res[1].Response.Redirect = <<>>
          /\ task'.res[1].Response.Diff # <<>>]_vars

\* C40: after a successful live_patch to the URL u the URL of the session,
\* which renderToTree gives to Render as Meta.URL and against which PushNav
\* resolves its path, is u.
C40_UrlAfterPatch ==
    (/\ task.pc = "write"
     /\ Step.src = "msg"
     /\ Step.msg.Event = "live_patch"
     /\ ~Step.err) =>
        sock.url = Step.msg.Payload.url


====
